---- MODULE Spec2Model ----
(***************************************************************************)
(* FinEdge: edge-score pipeline.  A state-machine model of the signal      *)
(* composer (core/signals.py), the prediction engine (core/predictor.py)   *)
(* and the parts of the indicator engine and of the persistence layer they *)
(* rest on.                                                                *)
(*                                                                         *)
(* Numbers.  Scores are kept in tenths (one decimal: 60.1 is 601), weights *)
(* in hundredths (0.45 is 45), so a weighted sum is in thousandths.        *)
(* Prices and volumes are integers.                                        *)
(***************************************************************************)
EXTENDS Integers, Sequences, FiniteSets, TLC

VARIABLES
    config,          \* config.WEIGHT_ML / WEIGHT_TECHNICAL / WEIGHT_SENTIMENT
    prices,          \* price_history rows of the instrument, ascending by date
    modelFile,       \* models/<TICKER>_model.pkl
    scalerFile,      \* models/<TICKER>_scaler.pkl
    runs,            \* number of classifier fits made so far (names a fit)
    model_metrics,   \* model_metrics rows (the fit each row belongs to)
    predictions,     \* predictions rows
    signals,         \* signals rows
    sentiment_cache, \* sentiment_cache row of the instrument
    call,            \* the last completed call: its name, arguments and outcome
    pc,              \* position of each thread in train_model / predict
    local            \* local variables of each thread

vars == <<config, prices, modelFile, scalerFile, runs, model_metrics,
          predictions, signals, sentiment_cache, call, pc, local>>

storeVars == <<prices, modelFile, scalerFile, runs, model_metrics,
               predictions, signals, sentiment_cache>>

threadVars == <<pc, local>>

----------------------------------------------------------------------------
(* Arithmetic helpers *)

Abs(x) == IF x < 0 THEN -x ELSE x

Min2(a, b) == IF a < b THEN a ELSE b

Max2(a, b) == IF a > b THEN a ELSE b

\* round(x / d) to the nearest integer, ties to even, as Python's round()
RoundDiv(x, d) ==
    LET q == x \div d
        r == x % d
    IN  IF 2 * r < d THEN q
        ELSE IF 2 * r > d THEN q + 1
        ELSE IF q % 2 = 0 THEN q ELSE q + 1

----------------------------------------------------------------------------
(* core/signals.py: classification *)

\* the score range [-100, 100] in tenths
ScoreMax == 1000

\* SIGNAL_LABELS in the dict's insertion order, bounds in tenths
SIGNAL_LABELS ==
    << [lo |->   600, hi |->  1000, label |-> "STRONG BUY"],
       [lo |->   250, hi |->   600, label |-> "BUY"],
       [lo |->  -250, hi |->   250, label |-> "HOLD"],
       [lo |->  -600, hi |->  -250, label |-> "SELL"],
       [lo |-> -1000, hi |->  -600, label |-> "STRONG SELL"] >>

\* classify_signal: the first band, in dict order, with lo <= score <= hi
classify_signal(score) ==
    LET hits == {k \in 1..Len(SIGNAL_LABELS) :
                    SIGNAL_LABELS[k].lo <= score /\ score <= SIGNAL_LABELS[k].hi}
    IN  IF hits = {} THEN "HOLD"
        ELSE SIGNAL_LABELS[CHOOSE k \in hits : \A j \in hits : k <= j].label

----------------------------------------------------------------------------
(* Price series.  A bar is one price_history row; a frame is a series       *)
(* together with whether compute_all has added the indicator columns.       *)

\* a trading bar whose range is open (High > Low) and which has volume
Bar(c) == [Close |-> c, High |-> c + 1, Low |-> c, Volume |-> 100]

\* a bar without trading: open = high = low = close and no volume
HaltBar(c) == [Close |-> c, High |-> c, Low |-> c, Volume |-> 0]

Frame(bars) == [bars |-> bars, enriched |-> FALSE]

----------------------------------------------------------------------------
(* finedge/core/indicators.py: compute_all *)

\* compute_all returns its input below this length
MIN_INDICATOR_BARS == 30

\* lines 18-20 with the guard left out
compute_all_unguarded(df) ==
    IF Len(df.bars) = 0 THEN df ELSE [df EXCEPT !.enriched = TRUE]

\* compute_all: the frame itself when it has fewer than 30 bars, otherwise a
\* copy with the indicator columns (functions of the bars, see below)
compute_all(df) ==
    IF Len(df.bars) = 0 \/ Len(df.bars) < MIN_INDICATOR_BARS
    THEN df
    ELSE [df EXCEPT !.enriched = TRUE]

\* rolling(w) at row i has a value: w rows end at i
Rolling(i, w) == i >= w

AllEqual(bars, lo, hi, F(_)) == \A j \in lo..hi : F(bars[j]) = F(bars[lo])

CloseOf(b) == b.Close

TypicalOf(b) == b.High + b.Low + b.Close

RECURSIVE RollMaxHigh(_, _, _)
RollMaxHigh(bars, i, w) ==
    IF w = 1 THEN bars[i].High
    ELSE Max2(bars[i - w + 1].High, RollMaxHigh(bars, i, w - 1))

RECURSIVE RollMinLow(_, _, _)
RollMinLow(bars, i, w) ==
    IF w = 1 THEN bars[i].Low
    ELSE Min2(bars[i - w + 1].Low, RollMinLow(bars, i, w - 1))

\* RSI (_compute_rsi): ewm(min_periods = 14); avg_gain / avg_loss is 0/0 = NaN
\* exactly when no close so far differs from its predecessor
RSI_Defined(bars, i) == Rolling(i, 14) /\ ~AllEqual(bars, 1, i, CloseOf)

\* BB_Pct = (close - lower) / (upper - lower): 0/0 when the 20-bar std is 0
BB_Pct_Defined(bars, i) ==
    Rolling(i, 20) /\ ~AllEqual(bars, i - 19, i, CloseOf)

\* BB_Width = (upper - lower) / middle * 100
BB_Width_Defined(bars, i) ==
    /\ Rolling(i, 20)
    /\ ~(AllEqual(bars, i - 19, i, CloseOf) /\ bars[i].Close = 0)

\* ATR: 14-bar mean of the true range (row-wise max, which skips NaN)
ATR_Defined(bars, i) == Rolling(i, 14)

\* Stoch_K = (close - low_14) / (high_14 - low_14) * 100, and Williams_R over
\* the same range: 0/0 when the 14-bar range is empty
Stoch_K_Defined(bars, i) ==
    Rolling(i, 14) /\ RollMaxHigh(bars, i, 14) # RollMinLow(bars, i, 14)

\* Stoch_D = Stoch_K.rolling(3).mean()
Stoch_D_Defined(bars, i) ==
    i >= 3 /\ \A j \in (i - 2)..i : Stoch_K_Defined(bars, j)

\* Volume_Ratio = volume / Volume_SMA_20: 0/0 when the window has no volume
Volume_Ratio_Defined(bars, i) ==
    /\ Rolling(i, 20)
    /\ ~(bars[i].Volume = 0 /\ \A j \in (i - 19)..i : bars[j].Volume = 0)

\* ROC_n = close.pct_change(n) * 100; Momentum_10 = close - close.shift(10)
ROC_Defined(bars, i, n) ==
    i > n /\ ~(bars[i - n].Close = 0 /\ bars[i].Close = 0)

Momentum_Defined(bars, i) == i > 10

\* CCI = (tp - tp_sma) / (0.015 * tp_mad): 0/0 when the 20 typical prices agree
CCI_Defined(bars, i) ==
    Rolling(i, 20) /\ ~AllEqual(bars, i - 19, i, TypicalOf)

\* row i of an enriched frame has a value in every column of FEATURE_COLS
\* (MACD, MACD_Hist and the np.where crossover flags always have one)
FeatureRowDefined(bars, i) ==
    /\ RSI_Defined(bars, i)
    /\ BB_Pct_Defined(bars, i)
    /\ BB_Width_Defined(bars, i)
    /\ ATR_Defined(bars, i)
    /\ Stoch_K_Defined(bars, i)
    /\ Stoch_D_Defined(bars, i)
    /\ Volume_Ratio_Defined(bars, i)
    /\ ROC_Defined(bars, i, 5)
    /\ ROC_Defined(bars, i, 10)
    /\ ROC_Defined(bars, i, 20)
    /\ Momentum_Defined(bars, i)
    /\ CCI_Defined(bars, i)

----------------------------------------------------------------------------
(* The series the specifications draw from *)

\* longest series drawn
MaxBars == 81

\* longest series drawn bar by bar
MaxShort == 3

\* closes of a series drawn bar by bar
MaxClose == 3

\* a constant run at the end of a "tail" series: the Bollinger look-back
TailLen == 20

\* "zig": closes alternate 11, 10, 11, ...; "fall": each close below the
\* last; "halt": no trading at all; "tail": zig, then TailLen halted bars
Shapes == {"zig", "fall", "halt", "tail"}

ShapedBar(n, shape, i) ==
    CASE shape = "zig"  -> Bar(10 + (i % 2))
      [] shape = "fall" -> Bar(1000 - i)
      [] shape = "halt" -> HaltBar(10)
      [] shape = "tail" -> IF i > n - TailLen THEN HaltBar(10)
                                               ELSE Bar(10 + (i % 2))

SeriesOf(n, shape) == [i \in 1..n |-> ShapedBar(n, shape, i)]

ShapedLens == {0, 1, 29, 30, 59, 60} \cup (79..MaxBars)

ShapedSeries == {SeriesOf(n, sh) : n \in ShapedLens, sh \in Shapes}

ShortSeries ==
    UNION {[1..n -> {Bar(c) : c \in 1..MaxClose}] : n \in 0..MaxShort}

----------------------------------------------------------------------------
(* core/predictor.py: prepare_features *)

\* Future_Return = Close.shift(-1) / Close - 1, and Target = (Future_Return > 0)
\* as an int: at the last bar the shift is NaN, NaN > 0 is False, Target is 0
Target(bars, i) ==
    IF i >= Len(bars) THEN 0
    ELSE LET c == bars[i].Close
             nxt == bars[i + 1].Close
         IN  IF c > 0 THEN (IF nxt > c THEN 1 ELSE 0)
             ELSE IF c = 0 THEN (IF nxt > 0 THEN 1 ELSE 0)
             ELSE (IF nxt < c THEN 1 ELSE 0)

\* target.notna(): astype(int) leaves no NaN behind
TargetNotNa(bars, i) == TRUE

\* the mask of prepare_features: every available feature has a value (no
\* feature column is available in a frame compute_all returned unchanged)
RowMask(df, i) ==
    /\ df.enriched => FeatureRowDefined(df.bars, i)
    /\ TargetNotNa(df.bars, i)

\* the rows mask keeps among lo..hi, in order
RECURSIVE MaskedRows(_, _, _)
MaskedRows(df, lo, hi) ==
    IF lo > hi THEN << >>
    ELSE (IF RowMask(df, lo)
          THEN << [idx |-> lo, label |-> Target(df.bars, lo)] >>
          ELSE << >>) \o MaskedRows(df, lo + 1, hi)

\* the masked rows of the series drawn below, computed once
MaskedRowsTable ==
    {[bars |-> s, rows |-> MaskedRows(compute_all(Frame(s)), 1, Len(s))] :
        s \in ShapedSeries}

\* MaskedRows over a whole frame (looked up when the series is a drawn one)
MaskedRowsOf(df) ==
    IF df.enriched /\ \E e \in MaskedRowsTable : e.bars = df.bars
    THEN (CHOOSE e \in MaskedRowsTable : e.bars = df.bars).rows
    ELSE MaskedRows(df, 1, Len(df.bars))

\* prepare_features: the (feature row, target) pairs, each named by its bar
prepare_features(df0) ==
    IF Len(df0.bars) = 0 THEN << >>
    ELSE LET df == IF df0.enriched THEN df0 ELSE compute_all(df0)
         IN  MaskedRowsOf(df)

----------------------------------------------------------------------------
(* The persisted state as one value, so that a call is a function of it:    *)
(* price_history, the two pickle files, model_metrics, predictions.  A file *)
(* holds NoFile, Partial (opened "wb", its pickle not completely written)   *)
(* or the number (1, 2, ...) of the fit whose object was dumped into it.    *)

NoFile == 0

Partial == -1

Store ==
    [prices |-> prices, modelFile |-> modelFile, scalerFile |-> scalerFile,
     runs |-> runs, model_metrics |-> model_metrics, predictions |-> predictions]

SetStore(st) ==
    /\ prices' = st.prices
    /\ modelFile' = st.modelFile
    /\ scalerFile' = st.scalerFile
    /\ runs' = st.runs
    /\ model_metrics' = st.model_metrics
    /\ predictions' = st.predictions

\* the df argument of train_model / predict: None, or a frame
NoDf == [given |-> FALSE]

GivenDf(df) == [given |-> TRUE, df |-> df]

----------------------------------------------------------------------------
(* core/database.py, core/fetcher.py: price history *)

\* get_history_df reads at most this many rows
HISTORY_DAYS == 365

\* save_prices: INSERT OR REPLACE per (ticker, date); the date of a bar is its
\* place in the series, so a fetched bar replaces the stored bar of its date
save_prices(st, bars) ==
    [st EXCEPT !.prices =
        [i \in 1..Max2(Len(st.prices), Len(bars)) |->
            IF i <= Len(bars) THEN bars[i] ELSE st.prices[i]]]

\* get_prices: the last `limit` rows by date, returned ascending
get_prices(st, limit) ==
    LET n == Len(st.prices)
    IN  IF n <= limit THEN st.prices ELSE SubSeq(st.prices, n - limit + 1, n)

\* fetch_history: the provider's series, saved unless it is empty
fetch_history(st, provided) ==
    IF Len(provided) = 0
    THEN [st |-> st, df |-> Frame(<< >>)]
    ELSE [st |-> save_prices(st, provided), df |-> Frame(provided)]

\* get_history_df: the stored rows, or a fetch when nothing is stored
get_history_df(st, provided) ==
    LET rows == get_prices(st, HISTORY_DAYS)
    IN  IF Len(rows) = 0 THEN fetch_history(st, provided)
        ELSE [st |-> st, df |-> Frame(rows)]

----------------------------------------------------------------------------
(* core/predictor.py: train_model *)

MIN_TRAINING_SAMPLES == 60

\* where the disk or the database fails during a call, if that step is reached
Faults == {"none", "open_model", "dump_model", "open_scaler", "dump_scaler",
           "save_metrics", "save_prediction"}

\* the frame a call works on, with the store after reading it: the df given,
\* or get_history_df(ticker) when df is None
FrameFor(st, dfArg, provided) ==
    IF dfArg.given THEN [st |-> st, df |-> dfArg.df]
    ELSE get_history_df(st, provided)

\* train_model returned None (lines 75-77 and 85-87): nothing is written
NoTraining(h) ==
    [st |-> h.st, df |-> h.df, raised |-> FALSE, fitted |-> FALSE, run |-> 0,
     ret |-> [kind |-> "None"]]

TrainRaised(st, df, v) ==
    [st |-> st, df |-> df, raised |-> TRUE, fitted |-> TRUE, run |-> v,
     ret |-> [kind |-> "None"]]

\* lines 125-136: open(model, "wb"), pickle.dump, open(scaler, "wb"),
\* pickle.dump, save_model_metrics, in this order, stopping at the fault;
\* s is the store with the fit counted, v the number of the fit
PersistSteps(s, df, v, fault, samples) ==
    CASE fault = "open_model"   -> TrainRaised(s, df, v)
      [] fault = "dump_model"   ->
            TrainRaised([s EXCEPT !.modelFile = Partial], df, v)
      [] fault = "open_scaler"  ->
            TrainRaised([s EXCEPT !.modelFile = v], df, v)
      [] fault = "dump_scaler"  ->
            TrainRaised([s EXCEPT !.modelFile = v, !.scalerFile = Partial], df, v)
      [] fault = "save_metrics" ->
            TrainRaised([s EXCEPT !.modelFile = v, !.scalerFile = v], df, v)
      [] OTHER ->
            [st |-> [s EXCEPT !.modelFile = v, !.scalerFile = v,
                              !.model_metrics = Append(@, v)],
             df |-> df, raised |-> FALSE, fitted |-> TRUE, run |-> v,
             ret |-> [kind |-> "metrics", samples |-> samples]]

\* lines 89-139: fit the scaler and the classifier, then persist
PersistModel(h, fault, samples) ==
    PersistSteps([h.st EXCEPT !.runs = @ + 1], h.df, h.st.runs + 1, fault, samples)

\* the rows train_model counts at line 85
TrainingRows(df) == prepare_features(compute_all(df))

\* lines 85-87
TrainRows(h, samples, fault) ==
    IF samples < MIN_TRAINING_SAMPLES THEN NoTraining(h)
    ELSE PersistModel(h, fault, samples)

\* lines 75-87
TrainOn(h, fault) ==
    IF Len(h.df.bars) = 0 \/ Len(h.df.bars) < MIN_TRAINING_SAMPLES
    THEN NoTraining(h)
    ELSE TrainRows(h, Len(TrainingRows(h.df)), fault)

\* train_model(ticker, df): the new store, what is returned, whether it raised
train_model(st, dfArg, provided, fault) ==
    TrainOn(FrameFor(st, dfArg, provided), fault)

----------------------------------------------------------------------------
(* core/predictor.py: predict, get_ml_score *)

NEUTRAL == [direction |-> "NEUTRAL", confidence |-> 0, change_pct |-> 0]

\* |close.pct_change()| at row i, in millionths
AbsPctChange(bars, i) ==
    IF bars[i - 1].Close = 0 THEN 0
    ELSE (Abs(bars[i].Close - bars[i - 1].Close) * 1000000)
            \div Abs(bars[i - 1].Close)

RECURSIVE SumAbsPctChange(_, _, _)
SumAbsPctChange(bars, lo, hi) ==
    IF lo > hi THEN 0
    ELSE AbsPctChange(bars, lo) + SumAbsPctChange(bars, lo + 1, hi)

\* lines 191-199: mean of the last 20 |pct_change| (the first row has none),
\* times 100, negated for DOWN, rounded to 2 decimals; in hundredths of a percent
EstimatedChange(bars, direction) ==
    LET n == Len(bars)
        lo == Max2(2, n - 19)
        mag == IF lo > n THEN 0
               ELSE RoundDiv(SumAbsPctChange(bars, lo, n), (n - lo + 1) * 100)
    IN  IF direction = "DOWN" THEN -mag ELSE mag

\* os.path.exists(model_path)
ModelExists(st) == st.modelFile # NoFile

\* lines 154-161: both pickles load (a missing or truncated file raises, and
\* the exception is caught)
PairLoads(st) ==
    /\ st.modelFile \notin {NoFile, Partial}
    /\ st.scalerFile \notin {NoFile, Partial}

PredictNeutral(st, df) == [st |-> st, df |-> df, raised |-> FALSE, ret |-> NEUTRAL]

PredictRaised(st, df) == [st |-> st, df |-> df, raised |-> TRUE, ret |-> NEUTRAL]

\* lines 182-207: clf is what the classifier answers (direction, and the
\* larger class probability in units of 1e-5); est the estimated change
PredictSave(h, fault, clf, est) ==
    IF fault = "save_prediction" THEN PredictRaised(h.st, h.df)
    ELSE [st |-> [h.st EXCEPT !.predictions =
                     Append(@, [direction |-> clf.direction,
                                confidence |-> clf.confidence,
                                change_pct |-> est,
                                was_correct |-> "NULL"])],
          df |-> h.df, raised |-> FALSE,
          ret |-> [direction |-> clf.direction,
                   confidence |-> RoundDiv(clf.confidence, 10),
                   change_pct |-> est]]

\* lines 168-185 on df = compute_all(h.df): without feature columns last_row
\* holds no NaN, and the scaler raises on a row without columns
PredictRow(h, df, fault, clf) ==
    IF Len(df.bars) = 0 THEN PredictNeutral(h.st, h.df)
    ELSE IF ~df.enriched THEN PredictRaised(h.st, h.df)
    ELSE IF ~FeatureRowDefined(df.bars, Len(df.bars))
         THEN PredictNeutral(h.st, h.df)
    ELSE PredictSave(h, fault, clf, EstimatedChange(df.bars, clf.direction))

\* lines 163-207, with the pair loaded
PredictLoaded(h, fault, clf) == PredictRow(h, compute_all(h.df), fault, clf)

\* lines 154-207
PredictWithModel(st, dfArg, provided, fault, clf) ==
    IF ~PairLoads(st) THEN PredictNeutral(st, Frame(<< >>))
    ELSE PredictLoaded(FrameFor(st, dfArg, provided), fault, clf)

Attempted(r, attempts, training) ==
    [st |-> r.st, df |-> r.df, raised |-> r.raised, ret |-> r.ret,
     attempts |-> attempts, training |-> training]

\* lines 148-152: t is what train_model did
PredictAfterTraining(t, dfArg, provided, fault, clf) ==
    IF t.raised THEN Attempted(PredictRaised(t.st, t.df), 1, "raised")
    ELSE IF t.ret.kind = "None"
         THEN Attempted(PredictNeutral(t.st, t.df), 1, "None")
    ELSE Attempted(PredictWithModel(t.st, dfArg, provided, fault, clf),
                   1, "trained")

\* predict(ticker, df): trains first when no model file exists
predict(st, dfArg, provided, fault, clf) ==
    IF ModelExists(st)
    THEN Attempted(PredictWithModel(st, dfArg, provided, fault, clf),
                   0, "no attempt")
    ELSE PredictAfterTraining(train_model(st, dfArg, provided, fault),
                              dfArg, provided, fault, clf)

\* lines 218-220 left out: the base is never negated
ml_score_of_Unsigned(pred) ==
    IF pred.direction = "NEUTRAL" THEN 0
    ELSE RoundDiv(Max2(-10000, Min2(10000, pred.confidence)), 10)

\* get_ml_score on what predict returned: confidence (4 decimals) * 100,
\* negated for DOWN, clamped to [-100, 100], rounded to one decimal; in tenths
ml_score_of(pred) ==
    IF pred.direction = "NEUTRAL" THEN 0
    ELSE LET base == IF pred.direction = "DOWN"
                     THEN -pred.confidence ELSE pred.confidence
         IN  RoundDiv(Max2(-10000, Min2(10000, base)), 10)

----------------------------------------------------------------------------
(* core/sentiment.py: analyze_ticker, get_sentiment_score.  A headline is   *)
(* its polarity in hundredths; the raw score is kept as the exact fraction  *)
(* num / den of hundredths.                                                 *)

SENTIMENT_ENABLED == TRUE

RECURSIVE WeightedSum(_, _)
WeightedSum(scores, k) ==
    IF k = 0 THEN 0 ELSE k * scores[k] + WeightedSum(scores, k - 1)

RECURSIVE PlainSum(_, _)
PlainSum(scores, k) ==
    IF k = 0 THEN 0 ELSE scores[k] + PlainSum(scores, k - 1)

\* lines 73-78 with every weight 1: the simple mean
WeightedAverage_SimpleMean(scores) ==
    IF Len(scores) = 0 THEN [num |-> 0, den |-> 1]
    ELSE [num |-> PlainSum(scores, Len(scores)), den |-> Len(scores)]

\* lines 73-78: weights 1..n in the order supplied, sum(s * w) / sum(weights)
WeightedAverage(scores) ==
    IF Len(scores) = 0 THEN [num |-> 0, den |-> 1]
    ELSE [num |-> WeightedSum(scores, Len(scores)),
          den |-> (Len(scores) * (Len(scores) + 1)) \div 2]

\* save_sentiment: INSERT OR REPLACE of the instrument's one row
save_sentiment(cache, avg, count) ==
    << [score |-> avg, article_count |-> count] >>

\* lines 104-114: the label of a polarity (hundredths)
_score_label(score) ==
    IF score > 30 THEN "VERY POSITIVE"
    ELSE IF score > 10 THEN "POSITIVE"
    ELSE IF score > -10 THEN "NEUTRAL"
    ELSE IF score > -30 THEN "NEGATIVE"
    ELSE "VERY NEGATIVE"

\* lines 61-70: the analyzed list, one entry per headline in supplied order
Analyzed(heads) ==
    [k \in 1..Len(heads) |->
        [sentiment |-> heads[k], label |-> _score_label(heads[k])]]

\* lines 53-56 returning the most negative score instead of 0.0
NoNews_Negative(cache) ==
    [cache |-> cache, raised |-> FALSE, avg |-> [num |-> -100, den |-> 1],
     articles |-> 0, analyzed |-> << >>]

\* lines 49-50 and 53-56: return 0.0, []
NoNews(cache) ==
    [cache |-> cache, raised |-> FALSE, avg |-> [num |-> 0, den |-> 1],
     articles |-> 0, analyzed |-> << >>]

\* analyze_ticker: no headline (or sentiment disabled) returns (0.0, [])
\* before anything is saved; dbFails is save_sentiment raising
analyze_ticker(cache, heads, dbFails) ==
    IF ~SENTIMENT_ENABLED \/ Len(heads) = 0
    THEN NoNews(cache)
    ELSE IF dbFails
    THEN [cache |-> cache, raised |-> TRUE,
          avg |-> WeightedAverage(heads), articles |-> Len(heads),
          analyzed |-> Analyzed(heads)]
    ELSE [cache |-> save_sentiment(cache, WeightedAverage(heads), Len(heads)),
          raised |-> FALSE,
          avg |-> WeightedAverage(heads), articles |-> Len(heads),
          analyzed |-> Analyzed(heads)]

\* lines 93-97 on what analyze_ticker returned: avg * 100 clamped to
\* [-100, 100] and rounded to one decimal; in tenths
SentimentScore(a) ==
    [cache |-> a.cache, raised |-> a.raised, articles |-> a.articles,
     score |-> RoundDiv(Max2(-100 * a.avg.den, Min2(100 * a.avg.den, a.avg.num)) * 10,
                        a.avg.den),
     detail |-> [raw_score |-> RoundDiv(a.avg.num * 100, a.avg.den),
                 articles |-> Len(a.analyzed),
                 headlines |-> SubSeq(a.analyzed, 1, Min2(10, Len(a.analyzed)))]]

get_sentiment_score(cache, heads, dbFails) ==
    SentimentScore(analyze_ticker(cache, heads, dbFails))

----------------------------------------------------------------------------
(* finedge/core/indicators.py: get_ta_score, as far as the composer sees it *)

\* get_ta_score returns (0.0, {}) below this length
TA_MIN_BARS == 50

\* get_ta_score(df): taOut is what the threshold table gives for the latest
\* row (a score in tenths), or an exception raised while scoring it
get_ta_score(df, taOut) ==
    IF Len(df.bars) = 0 \/ Len(df.bars) < TA_MIN_BARS
    THEN [raised |-> FALSE, score |-> 0]
    ELSE taOut

----------------------------------------------------------------------------
(* finedge/core/indicators.py: get_ta_score on the latest row.  A cell of   *)
(* the row is a number, NaN, or absent (no such column).  RSI, volume ratio *)
(* and sub-scores are in tenths, the MACD histogram in thousandths, BB      *)
(* percent-b in hundredths, stochastic %K in units.                         *)

Num(v) == [def |-> "num", v |-> v]

NaN == [def |-> "nan", v |-> 0]

Absent == [def |-> "absent", v |-> 0]

\* last.get(col, default)
Get(cell, default) == IF cell.def = "absent" THEN Num(default) ELSE cell

\* x < c and x > c on floats: False when x is NaN
Lt(x, c) == x.def = "num" /\ x.v < c

Gt(x, c) == x.def = "num" /\ x.v > c

\* Python min(c, x) and max(c, x): x replaces c only when it compares
\* beyond it, so a NaN x yields c
PyMin(c, x) == IF Lt(x, c) THEN x.v ELSE c

PyMax(c, x) == IF Gt(x, c) THEN x.v ELSE c

\* one entry of the signals dict and the part appended to score_parts
Part(signal, part) == [signal |-> signal, part |-> part]

\* lines 137-152 with the tests for 40 and 60 placed before those for 30 and 70
RsiPart_LooseFirst(rsi) ==
    IF Lt(rsi, 400) THEN Part("BULLISH", 150)
    ELSE IF Lt(rsi, 300) THEN Part("OVERSOLD", 300)
    ELSE IF Gt(rsi, 600) THEN Part("BEARISH", -150)
    ELSE IF Gt(rsi, 700) THEN Part("OVERBOUGHT", -300)
    ELSE Part("NEUTRAL", 0)

\* lines 137-152
RsiPart(rsi) ==
    IF Lt(rsi, 300) THEN Part("OVERSOLD", 300)
    ELSE IF Lt(rsi, 400) THEN Part("BULLISH", 150)
    ELSE IF Gt(rsi, 700) THEN Part("OVERBOUGHT", -300)
    ELSE IF Gt(rsi, 600) THEN Part("BEARISH", -150)
    ELSE Part("NEUTRAL", 0)

\* lines 155-163: macd_hist * 100 in tenths is the cell's value in thousandths
MacdPart(macd_hist) ==
    IF Gt(macd_hist, 0) THEN Part("BULLISH", PyMin(250, macd_hist))
    ELSE Part("BEARISH", PyMax(-250, macd_hist))

\* lines 166-175
BollingerPart(bb_pct) ==
    IF Lt(bb_pct, 10) THEN Part("OVERSOLD", 200)
    ELSE IF Gt(bb_pct, 90) THEN Part("OVERBOUGHT", -200)
    ELSE Part("NEUTRAL", 0)

\* lines 178-184
SmaCrossPart(sma_cross) ==
    IF Gt(sma_cross, 0) THEN Part("GOLDEN CROSS", 150)
    ELSE Part("DEATH CROSS", -150)

\* lines 187-196
VolumePart(vol_ratio) ==
    IF Gt(vol_ratio, 20) THEN Part("HIGH VOLUME", 100)
    ELSE IF Lt(vol_ratio, 5) THEN Part("LOW VOLUME", -50)
    ELSE Part("NORMAL", 0)

\* lines 199-208
StochasticPart(stoch_k) ==
    IF Lt(stoch_k, 20) THEN Part("OVERSOLD", 150)
    ELSE IF Gt(stoch_k, 80) THEN Part("OVERBOUGHT", -150)
    ELSE Part("NEUTRAL", 0)

\* lines 132-208: the signals dict for the latest row
RowSignals(last) ==
    [RSI        |-> RsiPart(Get(last.RSI, 500)),
     MACD       |-> MacdPart(Get(last.MACD_Hist, 0)),
     Bollinger  |-> BollingerPart(Get(last.BB_Pct, 50)),
     SMA_Cross  |-> SmaCrossPart(Get(last.SMA_Cross_10_20, 0)),
     Volume     |-> VolumePart(Get(last.Volume_Ratio, 10)),
     Stochastic |-> StochasticPart(Get(last.Stoch_K, 50))]

\* line 211: raw = sum(score_parts)
RawScore(sig) ==
    sig.RSI.part + sig.MACD.part + sig.Bollinger.part + sig.SMA_Cross.part
        + sig.Volume.part + sig.Stochastic.part

\* line 212 without max/min
FinalScore_Unclamped(raw) == raw

\* line 212: final_score = max(-100, min(100, raw))
FinalScore(raw) == Max2(-1000, Min2(1000, raw))

\* lines 132-214
ScoreSignals(sig) == [score |-> FinalScore(RawScore(sig)), signals |-> <<sig>>]

\* get_ta_score on a frame of n bars whose latest row is last
get_ta_score_row(n, last) ==
    IF n = 0 \/ n < TA_MIN_BARS THEN [score |-> 0, signals |-> << >>]
    ELSE ScoreSignals(RowSignals(last))

----------------------------------------------------------------------------
(* core/signals.py: generate_signal *)

\* the weighted sum in thousandths (lines 74-78)
WeightedScore(ml, ta, sent, w) == ml * w.ml + ta * w.ta + sent * w.sent

\* line 79 without max/min
edge_score_unclamped(ml, ta, sent, w) ==
    RoundDiv(WeightedScore(ml, ta, sent, w), 100)

\* line 79 with the decimal cut off instead of rounded
edge_score_truncated(ml, ta, sent, w) ==
    Max2(-100000, Min2(100000, WeightedScore(ml, ta, sent, w))) \div 100

\* lines 74-79: the weighted sum (thousandths), clamped to [-100, 100] and
\* rounded to one decimal; the result in tenths
edge_score_of(ml, ta, sent, w) ==
    RoundDiv(Max2(-100000, Min2(100000, WeightedScore(ml, ta, sent, w))), 100)

\* lines 46-48 without the except branch of lines 49-53
MlContribution_NoHandler(r) ==
    [score |-> ml_score_of(r.ret), error |-> FALSE, st |-> r.st]

\* lines 46-53: the ML score, or 0.0 and an error note when predict raised
MlContribution(r) ==
    IF r.raised THEN [score |-> 0, error |-> TRUE, st |-> r.st]
    ELSE [score |-> ml_score_of(r.ret), error |-> FALSE, st |-> r.st]

\* lines 55-62
TaContribution(r) ==
    IF r.raised THEN [score |-> 0, error |-> TRUE]
    ELSE [score |-> r.score, error |-> FALSE]

\* lines 64-71
SentContribution(r) ==
    IF r.raised THEN [score |-> 0, error |-> TRUE, cache |-> r.cache]
    ELSE [score |-> r.score, error |-> FALSE, cache |-> r.cache]

\* lines 80-94: the signals row for an edge score
SignalRow(edge, ml, ta, sent) ==
    [signal_type |-> classify_signal(edge), edge_score |-> edge,
     ml_score |-> ml.score, ta_score |-> ta.score, sentiment_score |-> sent.score,
     details |-> [ml |-> ml.error, technical |-> ta.error, sentiment |-> sent.error]]

\* lines 73-106: fuse the three contributions, save the row and return it
Fuse(ml, ta, sent, w, rows) ==
    [kind |-> "signal", st |-> ml.st, cache |-> sent.cache,
     signals |-> Append(rows,
        SignalRow(edge_score_of(ml.score, ta.score, sent.score, w), ml, ta, sent)),
     ret |-> SignalRow(edge_score_of(ml.score, ta.score, sent.score, w), ml, ta, sent)]

\* the sub-sources that raised, as the calls themselves report it
RaisedSources(mlr, tar, sentr) ==
    (IF mlr.raised THEN {"ml"} ELSE {})
        \cup (IF tar.raised THEN {"technical"} ELSE {})
        \cup (IF sentr.raised THEN {"sentiment"} ELSE {})

Composed(mlr, tar, sentr, w, rows) ==
    [out |-> Fuse(MlContribution(mlr), TaContribution(tar),
                  SentContribution(sentr), w, rows),
     failed |-> RaisedSources(mlr, tar, sentr),
     invoked |-> {"ml", "technical", "sentiment"}]

\* lines 43-106 on a non-empty frame h.df; df is compute_all(h.df)
Compose(h, df, env, inp) ==
    Composed(predict(h.st, GivenDf(df), << >>, inp.fault, inp.clf),
             get_ta_score(df, inp.ta),
             get_sentiment_score(env.cache, inp.heads, inp.dbFails),
             env.w, env.rows)

\* lines 43-106 entered without the df.empty test of lines 39-41
GenerateOn_NoGuard(h, env, inp) == Compose(h, compute_all(h.df), env, inp)

\* lines 37-41
GenerateOn(h, env, inp) ==
    IF Len(h.df.bars) = 0
    THEN [out |-> [kind |-> "None", st |-> h.st, cache |-> env.cache,
                   signals |-> env.rows],
          failed |-> {}, invoked |-> {}]
    ELSE Compose(h, compute_all(h.df), env, inp)

\* generate_signal(ticker): env is the configuration, the sentiment cache
\* and the signals table; inp what the collaborators answer during the call
generate_signal(st, env, provided, inp) ==
    GenerateOn(get_history_df(st, provided), env, inp)

----------------------------------------------------------------------------
(* core/signals.py: generate_all_signals.  A case is what one instrument   *)
(* meets during its generate_signal call: the provider's series, the       *)
(* collaborators' answers, and the statement, if any, whose exception      *)
(* leaves generate_signal (the reads and writes outside its try blocks).   *)

\* lines 121-126: the entry of an instrument whose generate_signal raised
ErrorEntry(ticker) ==
    [ticker |-> ticker, signal |-> "ERROR", edge_score |-> 0, error |-> TRUE]

\* lines 97-105: the dict generate_signal returns
SignalEntry(ticker, row) ==
    [ticker |-> ticker, signal |-> row.signal_type,
     edge_score |-> row.edge_score, error |-> FALSE]

\* lines 114-126 for one item, r being generate_signal's effect when nothing
\* escapes: the entries appended to results and the signals table after it
TryOutcome(ticker, c, rows, r) ==
    IF c.escapes = "get_history_df"
    THEN [entries |-> <<ErrorEntry(ticker)>>, rows |-> rows]
    ELSE IF r.out.kind = "None"
    THEN [entries |-> << >>, rows |-> rows]
    ELSE IF c.escapes = "save_signal"
    THEN [entries |-> <<ErrorEntry(ticker)>>, rows |-> rows]
    ELSE [entries |-> <<SignalEntry(ticker, r.out.ret)>>, rows |-> r.out.signals]

TrySignal(ticker, c, st, w, rows) ==
    TryOutcome(ticker, c, rows,
        generate_signal(st, [w |-> w, cache |-> << >>, rows |-> rows],
                        c.provided, c.inp))

\* sorted(results, key=edge_score, reverse=True) keeps equal keys in their
\* original order: each entry goes behind every entry not below it
InsertByEdge(sorted, x) ==
    SubSeq(sorted, 1,
           Cardinality({j \in 1..Len(sorted) :
                           sorted[j].edge_score >= x.edge_score}))
      \o <<x>>
      \o SubSeq(sorted,
                Cardinality({j \in 1..Len(sorted) :
                                sorted[j].edge_score >= x.edge_score}) + 1,
                Len(sorted))

RECURSIVE SortedByEdge(_)
SortedByEdge(s) ==
    IF s = << >> THEN << >>
    ELSE InsertByEdge(SortedByEdge(SubSeq(s, 1, Len(s) - 1)), s[Len(s)])

\* the loop of lines 113-125 over the watchlist
RECURSIVE SignalLoop(_, _, _, _, _)
LoopStep(rest, cases, st, w, results, t) ==
    SignalLoop(rest, cases, st, w,
               [results |-> results \o t.entries, rows |-> t.rows])

SignalLoop(watchlist, cases, st, w, acc) ==
    IF watchlist = << >> THEN acc
    ELSE LoopStep(Tail(watchlist), cases, st, w, acc.results,
                  TrySignal(Head(watchlist), cases[Head(watchlist)], st, w,
                            acc.rows))

\* line 126 without the sort
Sorted_Unsorted(l) == [ret |-> l.results, rows |-> l.rows]

\* line 126
Sorted(l) == [ret |-> SortedByEdge(l.results), rows |-> l.rows]

\* generate_all_signals: every instrument starts from the store st of an
\* instrument without history
generate_all_signals(watchlist, cases, st, w, rows) ==
    Sorted(SignalLoop(watchlist, cases, st, w,
                      [results |-> << >>, rows |-> rows]))

----------------------------------------------------------------------------
(* core/database.py: get_prediction_accuracy *)

\* lines 183-189 without the filter was_correct IS NOT NULL
Audited_Unfiltered(rows) == DOMAIN rows

\* WHERE ticker = ? AND was_correct IS NOT NULL
Audited(rows) == {k \in DOMAIN rows : rows[k].was_correct # "NULL"}

\* SUM(CASE WHEN was_correct = 1 THEN 1 ELSE 0 END)
CorrectOf(rows, S) == Cardinality({k \in S : rows[k].was_correct = "1"})

\* lines 190-193: accuracy is the quotient correct / total, or 0.0
AccuracyOf(total, correct) ==
    IF total > 0
    THEN [total |-> total, correct |-> correct, accuracy |-> <<correct, total>>]
    ELSE [total |-> 0, correct |-> 0, accuracy |-> <<0, 1>>]

get_prediction_accuracy(rows) ==
    AccuracyOf(Cardinality(Audited(rows)), CorrectOf(rows, Audited(rows)))

----------------------------------------------------------------------------
(* Values shared by the specifications *)

NoCall == [op |-> "none"]

DefaultConfig == [ml |-> 45, ta |-> 35, sent |-> 20]

IdleStore ==
    /\ prices = << >>
    /\ modelFile = NoFile
    /\ scalerFile = NoFile
    /\ runs = 0
    /\ model_metrics = << >>
    /\ predictions = << >>
    /\ signals = << >>
    /\ sentiment_cache = << >>

IdleThreads ==
    /\ pc = [t \in {"web", "sched"} |-> "idle"]
    /\ local = [t \in {"web", "sched"} |-> NoCall]

----------------------------------------------------------------------------
(* SpecClassify: classify_signal applied to every one-decimal score *)

ClassifyInit ==
    /\ config = DefaultConfig
    /\ IdleStore
    /\ IdleThreads
    /\ \E s \in -ScoreMax..ScoreMax : call = [op |-> "input", score |-> s]

Classify ==
    /\ call.op = "input"
    /\ call' = [op |-> "classify_signal", score |-> call.score,
                ret |-> classify_signal(call.score)]
    /\ UNCHANGED <<config, storeVars, threadVars>>

ClassifyNext == Classify

SpecClassify == ClassifyInit /\ [][ClassifyNext]_vars

\* the partition documented for the signal composer
DocumentedBand(s) ==
    IF s < -600 THEN "STRONG SELL"
    ELSE IF s < -250 THEN "SELL"
    ELSE IF s <= 250 THEN "HOLD"
    ELSE IF s <= 600 THEN "BUY"
    ELSE "STRONG BUY"

\* C1: for every edge score s in [-100,100], classify_signal(s) is the band of
\* the documented partition: STRONG SELL below -60, SELL on [-60,-25), HOLD on
\* [-25,25], BUY on (25,60], STRONG BUY above 60.
C1_DocumentedPartition ==
    call.op = "classify_signal" => call.ret = DocumentedBand(call.score)


----------------------------------------------------------------------------
(* SpecFeatures: prepare_features applied to a series *)

FeaturesInit ==
    /\ config = DefaultConfig
    /\ IdleStore
    /\ IdleThreads
    /\ \E s \in ShapedSeries \cup ShortSeries :
          call = [op |-> "input_df", df |-> Frame(s)]

PrepareFeatures ==
    /\ call.op = "input_df"
    /\ call' = [op |-> "prepare_features", df |-> call.df,
                ret |-> prepare_features(call.df)]
    /\ UNCHANGED <<config, storeVars, threadVars>>

FeaturesNext == PrepareFeatures

SpecFeatures == FeaturesInit /\ [][FeaturesNext]_vars

\* C10: prepare_features emits a pair only for a bar that has a next bar (the
\* last bar of a series is never in the training set), and the label of every
\* emitted bar is 1 iff the next bar's close is strictly greater than its own.
C10_LabelNeedsNextBar ==
    call.op = "prepare_features" =>
        \A k \in 1..Len(call.ret) :
            LET r == call.ret[k]
                bars == call.df.bars
            IN  /\ r.idx < Len(bars)
                /\ (r.label = 1) <=> (bars[r.idx + 1].Close > bars[r.idx].Close)


----------------------------------------------------------------------------
(* Spec: the prediction engine, one call at a time.  fetch_history,         *)
(* train_model (scheduled_retrain, /api/retrain) and predict (/api/predict, *)
(* get_ml_score), each with the disk or database failing at any one step.   *)

\* fits made in a run of the model
MaxRuns == 2

\* predictions rows kept in a run of the model
MaxPredictions == 1

\* series the provider answers with
ProviderSeries ==
    {SeriesOf(n, sh) : n \in {0, 29} \cup (80..MaxBars), sh \in {"zig", "tail"}}

\* df arguments: None (read the store), or a frame the caller holds
DfArgs == {NoDf, GivenDf(Frame(<< >>)), GivenDf(Frame(SeriesOf(29, "zig")))}

\* the provider is asked only when no df is given and nothing is stored
Provided(dfArg) ==
    IF dfArg.given \/ Len(prices) > 0 THEN {<< >>} ELSE ProviderSeries

\* classifier answers: direction and the larger class probability, in 1e-5
ClfOutputs ==
    {[direction |-> d, confidence |-> c] :
        d \in {"UP", "DOWN"}, c \in {61250, 100000}}

Init ==
    /\ config = DefaultConfig
    /\ IdleStore
    /\ IdleThreads
    /\ call = NoCall

\* every answer of the provider starts at the same first date, so a later
\* answer is empty (a failed fetch) or no shorter than what is stored
FetchHistory ==
    \E p \in ProviderSeries :
        /\ Len(p) = 0 \/ Len(p) >= Len(prices)
        /\ SetStore(fetch_history(Store, p).st)
        /\ call' = [op |-> "fetch_history", rows |-> Len(p)]
        /\ UNCHANGED <<config, signals, sentiment_cache, threadVars>>

TrainModelDone(r) ==
    /\ SetStore(r.st)
    /\ call' = [op |-> "train_model", df |-> r.df,
                raised |-> r.raised, ret |-> r.ret,
                fitted |-> r.fitted, run |-> r.run,
                before |-> <<modelFile, scalerFile>>,
                metrics_rows |-> Len(r.st.model_metrics) - Len(model_metrics)]

TrainModel ==
    \E p \in Provided(NoDf), fault \in Faults :
        /\ runs < MaxRuns
        /\ TrainModelDone(train_model(Store, NoDf, p, fault))
        /\ UNCHANGED <<config, signals, sentiment_cache, threadVars>>

PredictDone(r) ==
    /\ SetStore(r.st)
    /\ call' = [op |-> "predict", df |-> r.df,
                raised |-> r.raised, ret |-> r.ret,
                attempts |-> r.attempts, training |-> r.training,
                before |-> <<modelFile, scalerFile>>,
                prediction_rows |-> Len(r.st.predictions) - Len(predictions)]

Predict ==
    \E dfArg \in DfArgs :
    \E p \in Provided(dfArg), fault \in Faults, clf \in ClfOutputs :
        /\ runs < MaxRuns
        /\ Len(predictions) < MaxPredictions
        /\ PredictDone(predict(Store, dfArg, p, fault, clf))
        /\ UNCHANGED <<config, signals, sentiment_cache, threadVars>>

Next == FetchHistory \/ TrainModel \/ Predict

Spec == Init /\ [][Next]_vars


\* C27: every predict call that returns a non-neutral result appends exactly
\* one prediction record and every neutral result appends none; no operation
\* records an actual outcome, so every persisted prediction has was_correct
\* unset and get_prediction_accuracy returns total 0, correct 0, accuracy 0.0.
C27_PredictionsLoggedNeverAudited ==
    /\ (call.op = "predict" /\ ~call.raised) =>
          /\ call.ret.direction # "NEUTRAL" => call.prediction_rows = 1
          /\ call.ret.direction = "NEUTRAL" => call.prediction_rows = 0
    /\ \A k \in DOMAIN predictions : predictions[k].was_correct = "NULL"
    /\ get_prediction_accuracy(predictions)
           = [total |-> 0, correct |-> 0, accuracy |-> <<0, 1>>]

\* a prediction was returned and logged, and the accuracy is still empty
C27_LoggedPrediction ==
    /\ call.op = "predict"
    /\ ~call.raised
    /\ call.ret.direction \in {"UP", "DOWN"}
    /\ call.prediction_rows = 1
    /\ Len(predictions) = 1
    /\ get_prediction_accuracy(predictions).total = 0


\* the pair of pickles now on disk
PersistedPair == <<modelFile, scalerFile>>

\* C3: when train_model fails at a persistence step, the persisted pair is
\* entirely the previous pair or entirely the new pair, never a new or
\* truncated model beside an old, missing or truncated scaler.
C3_FailedTrainKeepsPair ==
    (call.op = "train_model" /\ call.raised) =>
        \/ PersistedPair = call.before
        \/ PersistedPair = <<call.run, call.run>>

\* rows of a series that carry a feature vector and a label: the indicators
\* exist (30 bars), every feature of the row has a value, and a next bar exists
LabelledRows(df) ==
    IF Len(df.bars) < MIN_INDICATOR_BARS THEN {}
    ELSE {i \in 1..(Len(df.bars) - 1) : FeatureRowDefined(df.bars, i)}

\* C7: for a series with fewer than MIN_TRAINING_SAMPLES valid feature/label
\* rows train_model reports failure, fits nothing, writes no model file, no
\* scaler file and no metrics row, and leaves the persisted pair as it was.
C7_TooFewRowsNoTraining ==
    (call.op = "train_model"
        /\ Cardinality(LabelledRows(call.df)) < MIN_TRAINING_SAMPLES) =>
        /\ call.ret.kind = "None"
        /\ ~call.raised
        /\ ~call.fitted
        /\ call.metrics_rows = 0
        /\ PersistedPair = call.before

\* C8: predict without a model file makes exactly one training attempt, and
\* when that attempt fails returns the neutral result without raising and
\* without a prediction row; predict with a model file makes no attempt.
C8_OneLazyTrainingAttempt ==
    call.op = "predict" =>
        IF call.before[1] = NoFile
        THEN /\ call.attempts = 1
             /\ call.training \in {"None", "raised"} =>
                    /\ ~call.raised
                    /\ call.ret = NEUTRAL
                    /\ call.prediction_rows = 0
        ELSE call.attempts = 0

\* the latest row of the series lacks a value for a required feature
LastRowUndefined(df) ==
    \/ Len(df.bars) < MIN_INDICATOR_BARS
    \/ ~FeatureRowDefined(df.bars, Len(df.bars))

\* C9: with a persisted model and a non-empty series whose latest row lacks
\* a required feature (a NaN, or no indicator columns below 30 bars), predict
\* returns the neutral fallback, never raises and records no prediction.
C9_UndefinedRowIsNeutral ==
    (call.op = "predict"
        /\ call.before[1] \notin {NoFile, Partial}
        /\ call.before[2] \notin {NoFile, Partial}
        /\ Len(call.df.bars) > 0
        /\ LastRowUndefined(call.df)) =>
        /\ ~call.raised
        /\ call.ret = NEUTRAL
        /\ call.prediction_rows = 0


----------------------------------------------------------------------------
(* SpecSignal: generate_signal under every weight configuration, with each  *)
(* sub-source answering or raising.                                         *)

\* signals rows kept in a run of the model
MaxSignals == 1

\* weights in hundredths: the default, and configurations that do not sum to
\* 1, are negative or exceed 1
WeightConfigs ==
    { DefaultConfig,
      [ml |-> 33, ta |-> 33, sent |-> 33],
      [ml |-> 100, ta |-> 100, sent |-> 100],
      [ml |-> -50, ta |-> 150, sent |-> 0],
      [ml |-> 0, ta |-> 0, sent |-> -200] }

SignalSeries == {SeriesOf(n, "zig") : n \in {0, 29, MaxBars}}

TaOutcomes ==
    {[raised |-> TRUE, score |-> 0]}
        \cup {[raised |-> FALSE, score |-> x] : x \in {-1000, 150, 1000}}

HeadlineLists == {<< >>, <<20, -10, 40>>, <<-100, -100>>}

SignalFaults == {"none", "save_prediction"}

SignalClfOutputs ==
    {[direction |-> "UP", confidence |-> 61250],
     [direction |-> "DOWN", confidence |-> 100000]}

\* the news feed's headlines and whether saving the score fails
SentimentInputs ==
    {[heads |-> h, dbFails |-> FALSE] : h \in HeadlineLists}
        \cup {[heads |-> h, dbFails |-> TRUE] : h \in HeadlineLists \ {<< >>}}

SignalInputs ==
    {[fault |-> f, clf |-> c, ta |-> t, heads |-> s.heads, dbFails |-> s.dbFails] :
        f \in SignalFaults, c \in SignalClfOutputs, t \in TaOutcomes, s \in SentimentInputs}

SignalInit ==
    /\ config \in WeightConfigs
    /\ prices \in SignalSeries
    /\ modelFile = NoFile
    /\ scalerFile = NoFile
    /\ runs = 0
    /\ model_metrics = << >>
    /\ predictions = << >>
    /\ signals = << >>
    /\ sentiment_cache = << >>
    /\ IdleThreads
    /\ call = NoCall

GenerateSignalDone(r) ==
    /\ SetStore(r.out.st)
    /\ sentiment_cache' = r.out.cache
    /\ signals' = r.out.signals
    /\ call' = [op |-> "generate_signal", kind |-> r.out.kind,
                failed |-> r.failed, invoked |-> r.invoked,
                before |-> <<modelFile, scalerFile, model_metrics, predictions,
                             sentiment_cache, signals>>,
                signal_rows |-> Len(r.out.signals) - Len(signals),
                ret |-> IF r.out.kind = "signal" THEN <<r.out.ret>> ELSE << >>]

GenerateSignal ==
    \E p \in Provided(NoDf), inp \in SignalInputs :
        /\ Len(signals) < MaxSignals
        /\ runs < MaxRuns
        /\ Len(predictions) < MaxPredictions
        /\ GenerateSignalDone(
              generate_signal(Store,
                  [w |-> config, cache |-> sentiment_cache, rows |-> signals],
                  p, inp))
        /\ UNCHANGED <<config, threadVars>>

SignalNext == GenerateSignal

SpecSignal == SignalInit /\ [][SignalNext]_vars


ClampedSum(row) ==
    Max2(-100000, Min2(100000,
        row.ml_score * config.ml + row.ta_score * config.ta
            + row.sentiment_score * config.sent))

SourceScore(row, src) ==
    IF src = "ml" THEN row.ml_score
    ELSE IF src = "technical" THEN row.ta_score
    ELSE row.sentiment_score

\* C4: a generate_signal call on a non-empty series never aborts, whichever
\* of the three sub-sources raised: it persists exactly one signal and
\* returns it, every sub-source that raised is recorded with score 0 and an
\* error entry in the breakdown, every other sub-source has no error entry,
\* and the edge score is the clamped weighted sum of the recorded scores.
C4_FailedSourcesContributeZero ==
    (call.op = "generate_signal" /\ Len(prices) > 0) =>
        /\ call.kind = "signal"
        /\ call.signal_rows = 1
        /\ call.ret = <<signals[Len(signals)]>>
        /\ \A src \in {"ml", "technical", "sentiment"} :
              /\ (src \in call.failed) =>
                    SourceScore(call.ret[1], src) = 0 /\ call.ret[1].details[src]
              /\ (src \notin call.failed) => ~call.ret[1].details[src]
        /\ 2 * Abs(100 * call.ret[1].edge_score - ClampedSum(call.ret[1])) <= 100

C4_AllThreeSourcesRaised ==
    /\ call.op = "generate_signal"
    /\ Len(prices) > 0
    /\ call.failed = {"ml", "technical", "sentiment"}
    /\ call.signal_rows = 1
    /\ call.ret[1].edge_score = 0

\* C17: when no price series is obtainable (nothing stored and the provider
\* yields an empty series) generate_signal returns no signal, invokes none of
\* the three sub-scorers, and persists no signal, prediction, model, metrics
\* or sentiment record.
C17_NoDataNoSignal ==
    (call.op = "generate_signal" /\ Len(prices) = 0) =>
        /\ call.kind = "None"
        /\ call.ret = << >>
        /\ call.invoked = {}
        /\ call.signal_rows = 0
        /\ <<modelFile, scalerFile, model_metrics, predictions,
              sentiment_cache, signals>> = call.before

C17_EmptySeriesReturnedNone ==
    /\ call.op = "generate_signal"
    /\ Len(prices) = 0
    /\ call.kind = "None"
    /\ signals = << >>

\* C5: every persisted signal's edge score lies in [-100, 100], whatever the
\* sub-scores and whatever the configured weights.
C5_EdgeScoreInRange ==
    \A i \in 1..Len(signals) :
        -ScoreMax <= signals[i].edge_score /\ signals[i].edge_score <= ScoreMax

C5_ClampActed ==
    /\ call.op = "generate_signal"
    /\ Len(signals) > 0
    /\ config.ml + config.ta + config.sent # 100
    /\ Abs(signals[Len(signals)].ml_score * config.ml
            + signals[Len(signals)].ta_score * config.ta
            + signals[Len(signals)].sentiment_score * config.sent) > 100 * ScoreMax
    /\ Abs(signals[Len(signals)].edge_score) = ScoreMax

\* C6: every persisted signal's edge score is the weighted sum of its three
\* sub-scores under the configured weights, clamped to [-100, 100] and
\* rounded to one decimal (it is a one-decimal value within half a tenth of
\* the clamped sum), and its class is classify_signal of that edge score.
C6_EdgeIsRoundedClampedSum ==
    \A i \in 1..Len(signals) :
        /\ 2 * Abs(100 * signals[i].edge_score - ClampedSum(signals[i])) <= 100
        /\ signals[i].signal_type = classify_signal(signals[i].edge_score)

C6_RoundingActed ==
    /\ call.op = "generate_signal"
    /\ Len(signals) > 0
    /\ ClampedSum(signals[Len(signals)]) % 100 > 50
    /\ Abs(ClampedSum(signals[Len(signals)])) < 100 * ScoreMax
    /\ signals[Len(signals)].signal_type # "HOLD"


----------------------------------------------------------------------------
(* SpecConc: predict in a web request thread while the scheduler thread     *)
(* retrains the same instrument (app.py runs Flask threaded next to a       *)
(* BackgroundScheduler).  Each thread advances one file operation at a      *)
(* time.                                                                    *)

ConcSeries == {SeriesOf(MaxBars, sh) : sh \in {"zig", "tail"}}

\* a first training run has persisted its pair and its metrics row
ConcInit ==
    /\ config = DefaultConfig
    /\ prices \in ConcSeries
    /\ modelFile = 1
    /\ scalerFile = 1
    /\ runs = 1
    /\ model_metrics = <<1>>
    /\ predictions = << >>
    /\ signals = << >>
    /\ sentiment_cache = << >>
    /\ IdleThreads
    /\ call = NoCall

\* train_model lines 67-124: the call up to the first write
FitOnly(st) == train_model(st, NoDf, << >>, "open_model")

T_BeginDone(t) ==
    /\ runs' = t.st.runs
    /\ IF t.fitted
       THEN /\ pc' = [pc EXCEPT !["sched"] = "open_model"]
            /\ local' = [local EXCEPT !["sched"] = [op |-> "train_model", run |-> t.run]]
            /\ call' = call
       ELSE /\ call' = [op |-> "train_model", thread |-> "sched", run |-> 0]
            /\ UNCHANGED threadVars

\* scheduled_retrain -> retrain_all -> train_model(ticker): fetch, features, fit
T_Begin ==
    /\ pc["sched"] = "idle"
    /\ runs < MaxRuns
    /\ T_BeginDone(FitOnly(Store))
    /\ UNCHANGED <<config, prices, modelFile, scalerFile, model_metrics,
                   predictions, signals, sentiment_cache>>

\* line 127: open(model_path, "wb") truncates the file
T_OpenModel ==
    /\ pc["sched"] = "open_model"
    /\ modelFile' = Partial
    /\ pc' = [pc EXCEPT !["sched"] = "dump_model"]
    /\ UNCHANGED <<config, prices, scalerFile, runs, model_metrics, predictions,
                   signals, sentiment_cache, call, local>>

\* line 128: pickle.dump(model, f) and the close of the with block
T_DumpModel ==
    /\ pc["sched"] = "dump_model"
    /\ modelFile' = local["sched"].run
    /\ pc' = [pc EXCEPT !["sched"] = "open_scaler"]
    /\ UNCHANGED <<config, prices, scalerFile, runs, model_metrics, predictions,
                   signals, sentiment_cache, call, local>>

\* line 129
T_OpenScaler ==
    /\ pc["sched"] = "open_scaler"
    /\ scalerFile' = Partial
    /\ pc' = [pc EXCEPT !["sched"] = "dump_scaler"]
    /\ UNCHANGED <<config, prices, modelFile, runs, model_metrics, predictions,
                   signals, sentiment_cache, call, local>>

\* line 130
T_DumpScaler ==
    /\ pc["sched"] = "dump_scaler"
    /\ scalerFile' = local["sched"].run
    /\ pc' = [pc EXCEPT !["sched"] = "save_metrics"]
    /\ UNCHANGED <<config, prices, modelFile, runs, model_metrics, predictions,
                   signals, sentiment_cache, call, local>>

\* lines 133-139
T_SaveMetrics ==
    /\ pc["sched"] = "save_metrics"
    /\ model_metrics' = Append(model_metrics, local["sched"].run)
    /\ pc' = [pc EXCEPT !["sched"] = "idle"]
    /\ local' = [local EXCEPT !["sched"] = NoCall]
    /\ call' = [op |-> "train_model", thread |-> "sched", run |-> local["sched"].run]
    /\ UNCHANGED <<config, prices, modelFile, scalerFile, runs, predictions,
                   signals, sentiment_cache>>

\* what the web thread's predict returned
WebReturn(ret, model, scaler, loadFailed) ==
    /\ call' = [op |-> "predict", thread |-> "web", ret |-> ret,
                model |-> model, scaler |-> scaler, load_failed |-> loadFailed,
                pair_before |-> local["web"].pair_before]
    /\ pc' = [pc EXCEPT !["web"] = "idle"]
    /\ local' = [local EXCEPT !["web"] = NoCall]

\* predict line 148: os.path.exists(model_path); a model file is never
\* removed, so with a first run persisted the training branch is not taken
P_Exists ==
    /\ pc["web"] = "idle"
    /\ Len(predictions) < MaxPredictions
    /\ ModelExists(Store)
    /\ pc' = [pc EXCEPT !["web"] = "load_model"]
    /\ local' = [local EXCEPT !["web"] =
                    [op |-> "predict", model |-> NoFile, scaler |-> NoFile,
                     pair_before |-> <<modelFile, scalerFile>>]]
    /\ UNCHANGED <<config, storeVars, signals, sentiment_cache, call>>

\* lines 155-156: a truncated pickle raises and line 159 returns NEUTRAL
P_LoadModel ==
    /\ pc["web"] = "load_model"
    /\ IF modelFile \in {NoFile, Partial}
       THEN WebReturn(NEUTRAL, NoFile, NoFile, TRUE)
       ELSE /\ pc' = [pc EXCEPT !["web"] = "load_scaler"]
            /\ local' = [local EXCEPT !["web"].model = modelFile]
            /\ call' = call
    /\ UNCHANGED <<config, storeVars, signals, sentiment_cache>>

\* lines 157-158
P_LoadScaler ==
    /\ pc["web"] = "load_scaler"
    /\ IF scalerFile \in {NoFile, Partial}
       THEN WebReturn(NEUTRAL, local["web"].model, NoFile, TRUE)
       ELSE /\ pc' = [pc EXCEPT !["web"] = "finish"]
            /\ local' = [local EXCEPT !["web"].scaler = scalerFile]
            /\ call' = call
    /\ UNCHANGED <<config, storeVars, signals, sentiment_cache>>

P_FinishDone(r) ==
    /\ predictions' = r.st.predictions
    /\ WebReturn(r.ret, local["web"].model, local["web"].scaler, FALSE)

\* lines 163-207 with the loaded pair
P_Finish ==
    \E clf \in ClfOutputs :
        /\ pc["web"] = "finish"
        /\ P_FinishDone(PredictLoaded(FrameFor(Store, NoDf, << >>), "none", clf))
        /\ UNCHANGED <<config, prices, modelFile, scalerFile, runs, model_metrics,
                       signals, sentiment_cache>>

ConcNext ==
    \/ T_Begin \/ T_OpenModel \/ T_DumpModel \/ T_OpenScaler \/ T_DumpScaler
    \/ T_SaveMetrics
    \/ P_Exists \/ P_LoadModel \/ P_LoadScaler \/ P_Finish

SpecConc == ConcInit /\ [][ConcNext]_vars

\* C2: under every interleaving of predict with a retraining run, the model
\* and the scaler that predict has loaded come from one training run, and
\* predict does not fail to load a pair while one was persisted when it
\* started (the old pair stays usable until the new one is complete).
C2_PredictLoadsOnePair ==
    /\ (pc["web"] = "finish") => local["web"].model = local["web"].scaler
    /\ (call.op = "predict" /\ call.thread = "web") => ~call.load_failed


----------------------------------------------------------------------------
(* finedge/core/indicators.py: the values of the derived columns.  A cell   *)
(* is a sequence of integers: << >> for NaN, <<n>> for a number (a mean is  *)
(* kept as its window sum), <<n, d>> for the quotient n / d, and, for a     *)
(* recursive average, its parameters and the observations it has consumed.  *)

NoValue == << >>

Closes(bars) == [k \in 1..Len(bars) |-> bars[k].Close]

Highs(bars) == [k \in 1..Len(bars) |-> bars[k].High]

Lows(bars) == [k \in 1..Len(bars) |-> bars[k].Low]

Volumes(bars) == [k \in 1..Len(bars) |-> bars[k].Volume]

\* tp = (high + low + close) / 3, kept as the sum
Typicals(bars) == [k \in 1..Len(bars) |-> TypicalOf(bars[k])]

RowNumbers(bars) == [k \in 1..Len(bars) |-> k]

RECURSIVE SeqSum(_)
SeqSum(s) == IF s = << >> THEN 0 ELSE Head(s) + SeqSum(Tail(s))

RECURSIVE SeqMax(_)
SeqMax(s) == IF Len(s) = 1 THEN s[1] ELSE Max2(Head(s), SeqMax(Tail(s)))

RECURSIVE SeqMin(_)
SeqMin(s) == IF Len(s) = 1 THEN s[1] ELSE Min2(Head(s), SeqMin(Tail(s)))

Squares(s) == [k \in 1..Len(s) |-> s[k] * s[k]]

\* rolling(w, center=True): the window is centred on row i
RollingWindow_Centered(series, i, w) ==
    IF i - (w \div 2) >= 1 /\ i - (w \div 2) + w - 1 <= Len(series)
    THEN SubSeq(series, i - (w \div 2), i - (w \div 2) + w - 1)
    ELSE NoValue

\* series.rolling(w) at row i: the w rows that end at i, nothing before
\* w rows exist
RollingWindow(series, i, w) ==
    IF i >= w /\ i <= Len(series)
    THEN SubSeq(series, i - w + 1, i)
    ELSE NoValue

\* rolling(w).mean(), as the window sum
RollingSum(series, i, w) ==
    IF RollingWindow(series, i, w) = NoValue THEN NoValue
    ELSE <<SeqSum(RollingWindow(series, i, w))>>

\* ewm(adjust=False).mean() at row i: y[1] = x[1] and
\* y[k] = a * x[k] + (1 - a) * y[k-1], a function of the observations 1..i
Ewm(series, i) == SubSeq(series, 1, i)

\* cumsum() at row i
CumSum(series, i) == SeqSum(SubSeq(series, 1, i))

SMA(bars, i, w) == RollingSum(Closes(bars), i, w)

EMA(bars, i, span) == <<span>> \o Ewm(Closes(bars), i)

MACD(bars, i) == EMA(bars, i, 12) \o EMA(bars, i, 26)

\* the 9-span average of the MACD column
MACD_Signal(bars, i) == <<9, 12, 26>> \o Ewm(Closes(bars), i)

MACD_Hist(bars, i) == MACD(bars, i) \o MACD_Signal(bars, i)

\* series.diff(), with the NaN of the first row replaced by 0.0 as
\* delta.where(...) does
Deltas(bars) ==
    [k \in 1..Len(bars) |->
        IF k = 1 THEN 0 ELSE bars[k].Close - bars[k - 1].Close]

RSI(bars, i) ==
    IF RSI_Defined(bars, i) THEN <<14>> \o Ewm(Deltas(bars), i) ELSE NoValue

\* bb_sma and bb_std: the sum and the sum of squares of the window
\* determine both
BB_Bands(bars, i) ==
    IF RollingWindow(Closes(bars), i, 20) = NoValue THEN NoValue
    ELSE <<SeqSum(RollingWindow(Closes(bars), i, 20)),
           SeqSum(Squares(RollingWindow(Closes(bars), i, 20)))>>

BB_Width(bars, i) ==
    IF BB_Width_Defined(bars, i) THEN BB_Bands(bars, i) ELSE NoValue

BB_Pct(bars, i) ==
    IF BB_Pct_Defined(bars, i) THEN <<bars[i].Close>> \o BB_Bands(bars, i)
    ELSE NoValue

\* _compute_atr: the row-wise maximum of tr1, tr2, tr3 skips the NaN that
\* close.shift() has in the first row
TrueRanges(bars) ==
    [k \in 1..Len(bars) |->
        IF k = 1 THEN bars[k].High - bars[k].Low
        ELSE Max2(bars[k].High - bars[k].Low,
                  Max2(Abs(bars[k].High - bars[k - 1].Close),
                       Abs(bars[k].Low - bars[k - 1].Close)))]

ATR(bars, i) == RollingSum(TrueRanges(bars), i, 14)

Range14(lows, highs) ==
    IF lows = NoValue \/ highs = NoValue THEN NoValue
    ELSE <<SeqMin(lows), SeqMax(highs)>>

\* low_14 and high_14
LowHigh14(bars, i) ==
    Range14(RollingWindow(Lows(bars), i, 14),
            RollingWindow(Highs(bars), i, 14))

StochOf(close, range) ==
    IF range = NoValue THEN NoValue
    ELSE IF range[1] = range[2] /\ close = range[1] THEN NoValue
    ELSE <<close - range[1], range[2] - range[1]>>

Stoch_K(bars, i) == StochOf(bars[i].Close, LowHigh14(bars, i))

MeanOf3(bars, rows) ==
    IF rows = NoValue THEN NoValue
    ELSE IF \E k \in 1..3 : Stoch_K(bars, rows[k]) = NoValue THEN NoValue
    ELSE Stoch_K(bars, rows[1]) \o Stoch_K(bars, rows[2])
                                \o Stoch_K(bars, rows[3])

\* Stoch_K.rolling(3).mean()
Stoch_D(bars, i) == MeanOf3(bars, RollingWindow(RowNumbers(bars), i, 3))

Volume_SMA_20(bars, i) == RollingSum(Volumes(bars), i, 20)

RatioOf(volume, sma) ==
    IF sma = NoValue THEN NoValue
    ELSE IF volume = 0 /\ sma[1] = 0 THEN NoValue
    ELSE <<volume>> \o sma

Volume_Ratio(bars, i) == RatioOf(bars[i].Volume, Volume_SMA_20(bars, i))

\* _compute_obv with the comparison of line 116 not strict
RECURSIVE OBV_NonStrict(_, _)
OBV_NonStrict(bars, i) ==
    IF i = 1 THEN 0
    ELSE IF bars[i].Close >= bars[i - 1].Close
         THEN OBV_NonStrict(bars, i - 1) + bars[i].Volume
    ELSE OBV_NonStrict(bars, i - 1) - bars[i].Volume

\* _compute_obv
RECURSIVE OBV(_, _)
OBV(bars, i) ==
    IF i = 1 THEN 0
    ELSE IF bars[i].Close > bars[i - 1].Close
         THEN OBV(bars, i - 1) + bars[i].Volume
    ELSE IF bars[i].Close < bars[i - 1].Close
         THEN OBV(bars, i - 1) - bars[i].Volume
    ELSE OBV(bars, i - 1)

\* close.pct_change(n) * 100
ROC(bars, i, n) ==
    IF ROC_Defined(bars, i, n) THEN <<bars[i].Close, bars[i - n].Close>>
    ELSE NoValue

\* close - close.shift(10)
Momentum_10(bars, i) ==
    IF Momentum_Defined(bars, i) THEN <<bars[i].Close - bars[i - 10].Close>>
    ELSE NoValue

\* np.where(fast > slow, 1, -1): a comparison with NaN is False
CrossOf(fast, f, slow, s) ==
    IF fast # NoValue /\ slow # NoValue /\ fast[1] * s > slow[1] * f
    THEN <<1>> ELSE <<-1>>

SMA_Cross(bars, i, f, s) == CrossOf(SMA(bars, i, f), f, SMA(bars, i, s), s)

TypicalVolumes(bars) ==
    [k \in 1..Len(bars) |-> TypicalOf(bars[k]) * bars[k].Volume]

\* (tp * volume).cumsum() / volume.cumsum(): 0/0 while nothing has traded
VWAP(bars, i) ==
    IF CumSum(Volumes(bars), i) = 0 THEN NoValue
    ELSE <<CumSum(TypicalVolumes(bars), i), CumSum(Volumes(bars), i)>>

WilliamsOf(close, range) ==
    IF range = NoValue THEN NoValue
    ELSE IF range[1] = range[2] /\ close = range[2] THEN NoValue
    ELSE <<range[2] - close, range[2] - range[1]>>

Williams_R(bars, i) == WilliamsOf(bars[i].Close, LowHigh14(bars, i))

\* tp, tp_sma and tp_mad are functions of the window of typical prices
CCI(bars, i) ==
    IF CCI_Defined(bars, i)
    THEN <<TypicalOf(bars[i])>> \o RollingWindow(Typicals(bars), i, 20)
    ELSE NoValue

\* row i of the frame compute_all returns: every column it adds
DerivedAt(bars, i) ==
    [SMA_10          |-> SMA(bars, i, 10),
     SMA_20          |-> SMA(bars, i, 20),
     SMA_50          |-> SMA(bars, i, 50),
     EMA_12          |-> EMA(bars, i, 12),
     EMA_26          |-> EMA(bars, i, 26),
     EMA_9           |-> EMA(bars, i, 9),
     MACD            |-> MACD(bars, i),
     MACD_Signal     |-> MACD_Signal(bars, i),
     MACD_Hist       |-> MACD_Hist(bars, i),
     RSI             |-> RSI(bars, i),
     BB_Upper        |-> BB_Bands(bars, i),
     BB_Middle       |-> SMA(bars, i, 20),
     BB_Lower        |-> BB_Bands(bars, i),
     BB_Width        |-> BB_Width(bars, i),
     BB_Pct          |-> BB_Pct(bars, i),
     ATR             |-> ATR(bars, i),
     Stoch_K         |-> Stoch_K(bars, i),
     Stoch_D         |-> Stoch_D(bars, i),
     Volume_SMA_20   |-> Volume_SMA_20(bars, i),
     Volume_Ratio    |-> Volume_Ratio(bars, i),
     OBV             |-> <<OBV(bars, i)>>,
     ROC_5           |-> ROC(bars, i, 5),
     ROC_10          |-> ROC(bars, i, 10),
     ROC_20          |-> ROC(bars, i, 20),
     Momentum_10     |-> Momentum_10(bars, i),
     SMA_Cross_10_20 |-> SMA_Cross(bars, i, 10, 20),
     SMA_Cross_20_50 |-> SMA_Cross(bars, i, 20, 50),
     VWAP            |-> VWAP(bars, i),
     Williams_R      |-> Williams_R(bars, i),
     CCI             |-> CCI(bars, i)]

----------------------------------------------------------------------------
(* finedge/core/indicators.py: _compute_rsi, the value of the RSI column.   *)
(* avg_gain and avg_loss are averages with positive weights of the gains    *)
(* and of the losses of rows 2..i (row 1 has gain = loss = 0.0), so each    *)
(* is 0.0 exactly when every term is 0.0 and positive otherwise.            *)

\* avg_gain (sign = 1) or avg_loss (sign = -1) at row i is positive
AvgPositive(bars, i, sign) ==
    \E k \in 2..i : sign * (bars[k].Close - bars[k - 1].Close) > 0

\* an RSI cell: NaN, the number lo = hi, or a number strictly between lo and hi
RsiNaN == [def |-> "nan", lo |-> 0, hi |-> 0]

RsiExact(v) == [def |-> "num", lo |-> v, hi |-> v]

RsiBetween(lo, hi) == [def |-> "between", lo |-> lo, hi |-> hi]

\* rs = avg_gain / avg_loss and 100 - (100 / (1 + rs)): NaN before
\* min_periods rows; 0/0 is NaN; x/0 is inf, and 100 / inf is 0
_compute_rsi(bars, i) ==
    IF i < 14 THEN RsiNaN
    ELSE IF ~AvgPositive(bars, i, 1) /\ ~AvgPositive(bars, i, -1) THEN RsiNaN
    ELSE IF ~AvgPositive(bars, i, -1) THEN RsiExact(100)
    ELSE IF ~AvgPositive(bars, i, 1) THEN RsiExact(0)
    ELSE RsiBetween(0, 100)

----------------------------------------------------------------------------
(* SpecIndicators: compute_all applied to a series *)

IndicatorsInit ==
    /\ config = DefaultConfig
    /\ IdleStore
    /\ IdleThreads
    /\ \E s \in ShapedSeries \cup ShortSeries :
          call = [op |-> "input_bars", df |-> Frame(s)]

ComputeAll ==
    /\ call.op = "input_bars"
    /\ call' = [op |-> "compute_all", df |-> call.df, ret |-> compute_all(call.df)]
    /\ UNCHANGED <<config, storeVars, threadVars>>

IndicatorsNext == ComputeAll

SpecIndicators == IndicatorsInit /\ [][IndicatorsNext]_vars

\* C11: for every series shorter than 30 bars, the empty one included,
\* compute_all returns its input unchanged: the same bars in the same order
\* and no derived column.
C11_ShortSeriesUnchanged ==
    (call.op = "compute_all" /\ Len(call.df.bars) < 30) =>
        /\ call.ret.bars = call.df.bars
        /\ ~call.ret.enriched
        /\ call.ret = call.df

C11_TwentyNineBars ==
    /\ call.op = "compute_all"
    /\ Len(call.df.bars) = 29
    /\ call.ret = call.df

\* the bars up to row i kept, every later bar replaced and one more appended
LaterBarsChanged(bars, i) ==
    [k \in 1..(Len(bars) + 1) |->
        IF k <= i THEN bars[k] ELSE Bar(500 + k)]

\* C19: compute_all is causal.  For every series S and every row i with at
\* least 30 bars up to it, each derived column at row i of compute_all(S)
\* equals the same column at row i of compute_all applied to the bars up to
\* i alone, so changing or appending later bars never changes row i.
C19_ComputeAllIsCausal ==
    (call.op = "compute_all" /\ call.ret.enriched) =>
        \A i \in MIN_INDICATOR_BARS..Len(call.df.bars) :
            /\ compute_all(Frame(SubSeq(call.df.bars, 1, i))).enriched
            /\ DerivedAt(compute_all(Frame(SubSeq(call.df.bars, 1, i))).bars, i)
                   = DerivedAt(call.ret.bars, i)
            /\ DerivedAt(compute_all(Frame(LaterBarsChanged(call.df.bars, i))).bars, i)
                   = DerivedAt(call.ret.bars, i)

\* an enriched series of 80 bars whose last twenty rows differ from the
\* rows before them, and whose columns move from row 60 to row 61
C19_LaterBarsDiffer ==
    /\ call.op = "compute_all"
    /\ call.ret.enriched
    /\ Len(call.df.bars) = 80
    /\ call.df.bars[61] # call.df.bars[59]
    /\ DerivedAt(call.ret.bars, 61) # DerivedAt(call.ret.bars, 60)
    /\ DerivedAt(call.ret.bars, 60).SMA_50 # NoValue

\* C21: at every bar where RSI(14) is defined (at least 14 periods
\* available) its value lies in [0, 100], and whenever the smoothed average
\* loss is 0 the RSI is 100, never infinity and never undefined, also when
\* the smoothed average gain is 0 as well (constant closes).
C21_RsiInRangeAndHundredWithoutLoss ==
    (call.op = "compute_all" /\ call.ret.enriched) =>
        \A i \in 14..Len(call.ret.bars) :
            /\ _compute_rsi(call.ret.bars, i).def # "nan"
            /\ 0 <= _compute_rsi(call.ret.bars, i).lo
            /\ _compute_rsi(call.ret.bars, i).hi <= 100
            /\ ~AvgPositive(call.ret.bars, i, -1) =>
                   _compute_rsi(call.ret.bars, i) = RsiExact(100)




\* C24: at every bar of compute_all's output where both SMAs of a crossover
\* flag are defined, the flag is +1 iff the faster SMA is strictly greater
\* than the slower one and -1 otherwise; where the slower SMA is not yet
\* defined (fewer than 20 bars for 10-vs-20, fewer than 50 for 20-vs-50) the
\* flag is undefined rather than -1, so that such rows are excluded from
\* training.
C24_CrossoverFlagUndefinedBeforeWindow ==
    (call.op = "compute_all" /\ call.ret.enriched) =>
        \A i \in 1..Len(call.ret.bars) :
            /\ i >= 20 =>
                  (SMA_Cross(call.ret.bars, i, 10, 20) = <<1>>
                      <=> SMA(call.ret.bars, i, 10)[1] * 20
                              > SMA(call.ret.bars, i, 20)[1] * 10)
            /\ i >= 20 => SMA_Cross(call.ret.bars, i, 10, 20) \in {<<1>>, <<-1>>}
            /\ i >= 50 =>
                  (SMA_Cross(call.ret.bars, i, 20, 50) = <<1>>
                      <=> SMA(call.ret.bars, i, 20)[1] * 50
                              > SMA(call.ret.bars, i, 50)[1] * 20)
            /\ i >= 50 => SMA_Cross(call.ret.bars, i, 20, 50) \in {<<1>>, <<-1>>}
            /\ i < 20 => SMA_Cross(call.ret.bars, i, 10, 20) = NoValue
            /\ i < 50 => SMA_Cross(call.ret.bars, i, 20, 50) = NoValue
            /\ i < 50 => ~FeatureRowDefined(call.ret.bars, i)


----------------------------------------------------------------------------
(* SpecTaScore: get_ta_score applied to a latest row *)

\* a magnitude far outside every threshold
Huge == 1000000

Undefined == {NaN, Absent}

RsiCells == {Num(v) : v \in {250, 300, 400, 600, 700, 750}} \cup Undefined

MacdCells == {Num(v) : v \in {-Huge, -4, 0, 4, 500, Huge}} \cup Undefined

BollingerCells == {Num(v) : v \in {5, 10, 90, 95}} \cup Undefined

SmaCrossCells == {Num(v) : v \in {-1, 0, 1}} \cup Undefined

VolumeCells == {Num(v) : v \in {3, 5, 20, 30}} \cup Undefined

StochasticCells == {Num(v) : v \in {15, 20, 80, 85}} \cup Undefined

LatestRows ==
    [RSI : RsiCells, MACD_Hist : MacdCells, BB_Pct : BollingerCells,
     SMA_Cross_10_20 : SmaCrossCells, Volume_Ratio : VolumeCells,
     Stoch_K : StochasticCells]

\* the row of the worked example: RSI 25, MACD histogram 0.5, percent-b 0.05,
\* cross 1, volume ratio 3.0, %K 15
ExampleRow ==
    [RSI |-> Num(250), MACD_Hist |-> Num(500), BB_Pct |-> Num(5),
     SMA_Cross_10_20 |-> Num(1), Volume_Ratio |-> Num(30), Stoch_K |-> Num(15)]

TaScoreInit ==
    /\ config = DefaultConfig
    /\ IdleStore
    /\ IdleThreads
    /\ \/ \E last \in LatestRows :
             call = [op |-> "input_row", n |-> TA_MIN_BARS, last |-> last]
       \/ \E n \in {0, TA_MIN_BARS - 1, MaxBars} :
             call = [op |-> "input_row", n |-> n, last |-> ExampleRow]

GetTaScore ==
    /\ call.op = "input_row"
    /\ call' = [op |-> "get_ta_score", n |-> call.n, last |-> call.last,
                ret |-> get_ta_score_row(call.n, call.last)]
    /\ UNCHANGED <<config, storeVars, threadVars>>

TaScoreNext == GetTaScore

SpecTaScore == TaScoreInit /\ [][TaScoreNext]_vars

Cells(last) ==
    {last.RSI, last.MACD_Hist, last.BB_Pct, last.SMA_Cross_10_20,
     last.Volume_Ratio, last.Stoch_K}

\* C12: whatever the latest row holds (any magnitude, any of the six scored
\* indicators NaN or absent), the score get_ta_score returns lies in
\* [-100, 100].
C12_TaScoreInRange ==
    call.op = "get_ta_score" =>
        -1000 <= call.ret.score /\ call.ret.score <= 1000

C12_UndefinedCellsAndHugeValue ==
    /\ call.op = "get_ta_score"
    /\ call.n >= 50
    /\ NaN \in Cells(call.last)
    /\ Absent \in Cells(call.last)
    /\ call.last.MACD_Hist = Num(Huge)
    /\ call.ret.score > 0

\* the threshold table of the technical scorer, in tenths
TableRsi(v) ==
    IF v < 300 THEN 300 ELSE IF v < 400 THEN 150
    ELSE IF v > 700 THEN -300 ELSE IF v > 600 THEN -150 ELSE 0

TableMacd(v) == IF v > 0 THEN Min2(250, v) ELSE Max2(-250, v)

TableBollinger(v) == IF v < 10 THEN 200 ELSE IF v > 90 THEN -200 ELSE 0

TableSmaCross(v) == IF v > 0 THEN 150 ELSE -150

TableVolume(v) == IF v > 20 THEN 100 ELSE IF v < 5 THEN -50 ELSE 0

TableStochastic(v) == IF v < 20 THEN 150 ELSE IF v > 80 THEN -150 ELSE 0

TableSum(last) ==
    TableRsi(last.RSI.v) + TableMacd(last.MACD_Hist.v)
        + TableBollinger(last.BB_Pct.v) + TableSmaCross(last.SMA_Cross_10_20.v)
        + TableVolume(last.Volume_Ratio.v) + TableStochastic(last.Stoch_K.v)

AllDefined(last) == \A c \in Cells(last) : c.def = "num"

\* C13: for a latest row with all six scored indicators defined, in a series
\* of at least 50 bars, get_ta_score returns the sum of the threshold-table
\* sub-scores clamped to [-100, 100], and each reported sub-score is the
\* table's.
C13_TaScoreIsClampedTableSum ==
    (call.op = "get_ta_score" /\ call.n >= 50 /\ AllDefined(call.last)) =>
        /\ call.ret.score = Max2(-1000, Min2(1000, TableSum(call.last)))
        /\ call.ret.signals[1].RSI.part = TableRsi(call.last.RSI.v)
        /\ call.ret.signals[1].MACD.part = TableMacd(call.last.MACD_Hist.v)
        /\ call.ret.signals[1].Bollinger.part = TableBollinger(call.last.BB_Pct.v)
        /\ call.ret.signals[1].SMA_Cross.part = TableSmaCross(call.last.SMA_Cross_10_20.v)
        /\ call.ret.signals[1].Volume.part = TableVolume(call.last.Volume_Ratio.v)
        /\ call.ret.signals[1].Stochastic.part = TableStochastic(call.last.Stoch_K.v)

C13_ExampleRowScoresHundred ==
    /\ call.op = "get_ta_score"
    /\ call.n >= 50
    /\ call.last = ExampleRow
    /\ call.ret.score = 1000
    /\ RawScore(call.ret.signals[1]) = 1150
    /\ call.ret.signals[1].RSI.part = 300
    /\ call.ret.signals[1].MACD.part = 250
    /\ call.ret.signals[1].Bollinger.part = 200
    /\ call.ret.signals[1].SMA_Cross.part = 150
    /\ call.ret.signals[1].Volume.part = 100
    /\ call.ret.signals[1].Stochastic.part = 150

\* C20: get_ta_score never treats a NaN in the latest row as a number: a NaN
\* RSI, percent-b, volume ratio or %K is not reported as a neutral sub-score
\* of 0, and a NaN MACD histogram is not scored BULLISH or BEARISH.
C20_NaNIsNotScored ==
    (call.op = "get_ta_score" /\ call.n >= 50) =>
        /\ call.last.RSI = NaN => call.ret.signals[1].RSI.signal # "NEUTRAL"
        /\ call.last.BB_Pct = NaN => call.ret.signals[1].Bollinger.signal # "NEUTRAL"
        /\ call.last.Volume_Ratio = NaN => call.ret.signals[1].Volume.signal # "NORMAL"
        /\ call.last.Stoch_K = NaN => call.ret.signals[1].Stochastic.signal # "NEUTRAL"
        /\ call.last.MACD_Hist = NaN =>
              call.ret.signals[1].MACD.signal \notin {"BULLISH", "BEARISH"}


----------------------------------------------------------------------------
(* SpecSentiment: get_sentiment_score applied to what the feed returned *)

\* headlines in one answer of the feed
MaxHeadlines == 3

\* polarities (hundredths) a headline can have
Polarities == {-100, -10, 20, 40, 100}

HeadlineSeqs == UNION {[1..n -> Polarities] : n \in 0..MaxHeadlines}

\* the cache before the call: no row, or the row of an earlier scoring
CachedRows == {<< >>, save_sentiment(<< >>, WeightedAverage(<<40>>), 1)}

SentimentInit ==
    /\ config = DefaultConfig
    /\ prices = << >>
    /\ modelFile = NoFile
    /\ scalerFile = NoFile
    /\ runs = 0
    /\ model_metrics = << >>
    /\ predictions = << >>
    /\ signals = << >>
    /\ sentiment_cache \in CachedRows
    /\ IdleThreads
    /\ \E heads \in HeadlineSeqs : call = [op |-> "input_headlines", heads |-> heads]

GetSentimentScoreDone(r) ==
    /\ sentiment_cache' = r.cache
    /\ call' = [op |-> "get_sentiment_score", heads |-> call.heads,
                raised |-> r.raised, score |-> r.score, detail |-> r.detail,
                cache_before |-> sentiment_cache]

GetSentimentScore ==
    \E dbFails \in BOOLEAN :
        /\ call.op = "input_headlines"
        /\ GetSentimentScoreDone(
              get_sentiment_score(sentiment_cache, call.heads, dbFails))
        /\ UNCHANGED <<config, prices, modelFile, scalerFile, runs, model_metrics,
                       predictions, signals, threadVars>>

SentimentNext == GetSentimentScore

SpecSentiment == SentimentInit /\ [][SentimentNext]_vars

\* C14: when the feed returns no headline, get_sentiment_score returns the
\* score 0 and a detail that holds nothing: raw score 0, no article, no
\* headline.
C14_NoHeadlinesIsZero ==
    (call.op = "get_sentiment_score" /\ Len(call.heads) = 0) =>
        /\ ~call.raised
        /\ call.score = 0
        /\ call.detail.raw_score = 0
        /\ call.detail.articles = 0
        /\ call.detail.headlines = << >>

C14_NoHeadlinesScored ==
    /\ call.op = "get_sentiment_score"
    /\ call.heads = << >>
    /\ call.score = 0
    /\ call.cache_before # << >>

\* sum over k of k * p_k, as the sum of the suffix sums of p
RECURSIVE SuffixSums(_, _)
SuffixSums(p, k) ==
    IF k > Len(p) THEN 0
    ELSE PlainSum(p, Len(p)) - PlainSum(p, k - 1) + SuffixSums(p, k + 1)

TriangleNumber(n) == (n * (n + 1)) \div 2

\* 100 times the rank-weighted mean of p, clamped to [-100, 100], times
\* TriangleNumber(Len(p))
ClampedRankWeighted(p) ==
    Max2(-100 * TriangleNumber(Len(p)),
         Min2(100 * TriangleNumber(Len(p)), SuffixSums(p, 1)))

\* C15 (as amended): for every non-empty sequence of polarities p_1..p_n the
\* raw score saved is sum(k * p_k) / (n(n+1)/2), and the score returned is
\* that raw value times 100, clamped to [-100, 100] and rounded to one
\* decimal (within half a tenth of the clamped value).
C15_RankWeightedMeanRounded ==
    (call.op = "get_sentiment_score" /\ Len(call.heads) > 0 /\ ~call.raised) =>
        /\ Len(sentiment_cache) = 1
        /\ sentiment_cache[1].score.num * TriangleNumber(Len(call.heads))
              = sentiment_cache[1].score.den * SuffixSums(call.heads, 1)
        /\ 2 * Abs(call.score * TriangleNumber(Len(call.heads))
                    - 10 * ClampedRankWeighted(call.heads))
              <= TriangleNumber(Len(call.heads))

C15_WorkedExample ==
    /\ call.op = "get_sentiment_score"
    /\ call.heads = <<20, -10, 40>>
    /\ ~call.raised
    /\ call.score = 200

\* C15 (as stated): the score returned is exactly the raw value times 100,
\* clamped to [-100, 100].
C15_ExactlyRawTimesHundred ==
    (call.op = "get_sentiment_score" /\ Len(call.heads) > 0 /\ ~call.raised) =>
        call.score * TriangleNumber(Len(call.heads))
            = 10 * ClampedRankWeighted(call.heads)


\* C23: the sentiment cache holds at most one row per instrument, and after
\* each completed analyze_ticker call that row is the reading just computed
\* (its raw score, within [-1, 1], and its article count), replacing the
\* prior one, also when the latest scoring found no headlines.
C23_CacheHoldsLatestReading ==
    /\ Len(sentiment_cache) <= 1
    /\ (call.op = "get_sentiment_score" /\ ~call.raised) =>
          /\ Len(sentiment_cache) = 1
          /\ sentiment_cache[1].article_count = call.detail.articles
          /\ sentiment_cache[1].article_count = Len(call.heads)
          /\ Len(call.heads) = 0 => sentiment_cache[1].score.num = 0
          /\ Len(call.heads) > 0 =>
                 sentiment_cache[1].score = WeightedAverage(call.heads)
          /\ -100 * sentiment_cache[1].score.den <= sentiment_cache[1].score.num
          /\ sentiment_cache[1].score.num <= 100 * sentiment_cache[1].score.den


----------------------------------------------------------------------------
(* SpecSignalLog: the signals table of core/database.py under save_signal   *)
(* and get_latest_signals.  created_at is CURRENT_TIMESTAMP, a clock with   *)
(* one-second resolution that does not run backwards.                       *)

\* rows kept in the signals table
MaxLog == 3

Tickers == {"AAPL", "BTC-USD"}

LoggedScores == {-300, 700}

\* the newest created_at of the table (1 for an empty table)
LastStamp(rows) ==
    IF Len(rows) = 0 THEN 1
    ELSE rows[Len(rows)].created_at

\* save_signal: INSERT with an AUTOINCREMENT id and the current second
save_signal(rows, ticker, now, edge) ==
    Append(rows, [id |-> Len(rows) + 1, ticker |-> ticker, created_at |-> now,
                  signal_type |-> classify_signal(edge), edge_score |-> edge])

\* the inner SELECT: MAX(created_at) of a ticker's rows
MaxCreated(rows, ticker) ==
    CHOOSE m \in {rows[i].created_at : i \in 1..Len(rows)} :
        /\ \E i \in 1..Len(rows) : rows[i].ticker = ticker /\ rows[i].created_at = m
        /\ \A i \in 1..Len(rows) : rows[i].ticker = ticker => rows[i].created_at <= m

\* the join: every row whose created_at is the maximum of its ticker
JoinedRows(rows) ==
    {rows[i] : i \in {j \in 1..Len(rows) :
                         rows[j].created_at = MaxCreated(rows, rows[j].ticker)}}

\* ORDER BY s.edge_score DESC: any order of the joined rows that does not
\* ascend in edge_score
OrderedByScore(S) ==
    {f \in [1..Cardinality(S) -> S] :
        /\ \A a, b \in 1..Cardinality(S) : a # b => f[a] # f[b]
        /\ \A a, b \in 1..Cardinality(S) :
              a < b => f[a].edge_score >= f[b].edge_score}

\* get_latest_signals: the result lists SQLite may return
get_latest_signals(rows) == OrderedByScore(JoinedRows(rows))

SignalLogInit ==
    /\ config = DefaultConfig
    /\ IdleStore
    /\ IdleThreads
    /\ call = NoCall

SaveSignal ==
    \E ticker \in Tickers, edge \in LoggedScores,
       now \in {LastStamp(signals), LastStamp(signals) + 1} :
        /\ Len(signals) < MaxLog
        /\ signals' = save_signal(signals, ticker, now, edge)
        /\ call' = [op |-> "save_signal", id |-> Len(signals) + 1]
        /\ UNCHANGED <<config, prices, modelFile, scalerFile, runs, model_metrics,
                       predictions, sentiment_cache, threadVars>>

GetLatestSignals ==
    \E ret \in get_latest_signals(signals) :
        /\ call' = [op |-> "get_latest_signals", ret |-> ret]
        /\ UNCHANGED <<config, storeVars, threadVars>>

SignalLogNext == SaveSignal \/ GetLatestSignals

SpecSignalLog == SignalLogInit /\ [][SignalLogNext]_vars

\* the id of the row saved last for a ticker
NewestId(ticker) ==
    CHOOSE n \in 1..Len(signals) :
        /\ signals[n].ticker = ticker
        /\ \A i \in 1..Len(signals) : signals[i].ticker = ticker => i <= n

\* C16: get_latest_signals returns exactly one row for each instrument that
\* has a signal, and that row is the instrument's most recently saved one,
\* also when two of its signals carry the same created_at.
C16_OneNewestRowPerTicker ==
    call.op = "get_latest_signals" =>
        \A t \in {signals[i].ticker : i \in 1..Len(signals)} :
            /\ Cardinality({k \in 1..Len(call.ret) : call.ret[k].ticker = t}) = 1
            /\ \A k \in 1..Len(call.ret) :
                  call.ret[k].ticker = t => call.ret[k].id = NewestId(t)


----------------------------------------------------------------------------
(* SpecMlScore: get_ml_score on every result predict can return *)

\* confidence 1.0 in the four decimals predict returns
ConfidenceOne == 10000

PredictionResults ==
    {NEUTRAL} \cup
    {[direction |-> d, confidence |-> c, change_pct |-> 0] :
        d \in {"UP", "DOWN"}, c \in 0..ConfidenceOne}

MlScoreInit ==
    /\ config = DefaultConfig
    /\ IdleStore
    /\ IdleThreads
    /\ \E pred \in PredictionResults : call = [op |-> "input_prediction", pred |-> pred]

GetMlScore ==
    /\ call.op = "input_prediction"
    /\ call' = [op |-> "get_ml_score", pred |-> call.pred, ret |-> ml_score_of(call.pred)]
    /\ UNCHANGED <<config, storeVars, threadVars>>

MlScoreNext == GetMlScore

SpecMlScore == MlScoreInit /\ [][MlScoreNext]_vars

\* C18: get_ml_score is 0 for a neutral prediction; for confidence c it is
\* +100c for UP and -100c for DOWN, rounded to one decimal (within half a
\* tenth of it), always within [-100, 100], and a non-zero score has the sign
\* of the predicted direction.
C18_MlScoreSignedConfidence ==
    call.op = "get_ml_score" =>
        /\ call.pred.direction = "NEUTRAL" => call.ret = 0
        /\ call.pred.direction = "UP" =>
              2 * Abs(10 * call.ret - call.pred.confidence) <= 10
        /\ call.pred.direction = "DOWN" =>
              2 * Abs(10 * call.ret + call.pred.confidence) <= 10
        /\ -1000 <= call.ret /\ call.ret <= 1000
        /\ call.ret > 0 => call.pred.direction = "UP"
        /\ call.ret < 0 => call.pred.direction = "DOWN"

C18_DownScoredNegative ==
    /\ call.op = "get_ml_score"
    /\ call.pred.direction = "DOWN"
    /\ call.pred.confidence = 6125
    /\ call.ret = -612

----------------------------------------------------------------------------
(* SpecPrices: save_prices and get_prices on the price_history table, kept  *)
(* row by row.  A row is [ticker, date, close]; close stands for the        *)
(* open/high/low/close/volume values of the bar.                            *)

MaxDate == 2

PriceTickers == {"AAPL", "MSFT"}

PriceDates == 1..MaxDate

PriceCloses == {10, 11}

\* INSERT OR REPLACE under UNIQUE(ticker, date): the row in conflict is
\* deleted, then the new one is inserted
insert_or_replace(rows, row) ==
    {r \in rows : ~(r.ticker = row.ticker /\ r.date = row.date)} \cup {row}

\* save_prices: one INSERT OR REPLACE per row of df, in df order
RECURSIVE save_price_rows(_, _, _)
save_price_rows(rows, ticker, df) ==
    IF df = << >> THEN rows
    ELSE save_price_rows(
             insert_or_replace(rows, [ticker |-> ticker,
                                      date |-> Head(df).date,
                                      close |-> Head(df).close]),
             ticker, Tail(df))

\* ORDER BY date DESC
RECURSIVE DateDescending(_)
DateDescending(S) ==
    IF S = {} THEN << >>
    ELSE LET r == CHOOSE x \in S : \A y \in S : y.date <= x.date
         IN  <<r>> \o DateDescending(S \ {r})

Reversed(s) == [k \in 1..Len(s) |-> s[Len(s) + 1 - k]]

\* get_prices: the `limit` newest rows of the ticker, reversed
get_price_rows(rows, ticker, limit) ==
    Reversed(SubSeq(DateDescending({r \in rows : r.ticker = ticker}), 1,
                    Min2(limit, Cardinality({r \in rows : r.ticker = ticker}))))

\* the frames a provider delivers: dated bars in ascending date order
PriceFrames ==
    {<< >>}
    \cup {<<[date |-> d, close |-> c]>> : d \in PriceDates, c \in PriceCloses}
    \cup {<<[date |-> d, close |-> c], [date |-> d + 1, close |-> e]>> :
              d \in 1..(MaxDate - 1), c \in PriceCloses, e \in PriceCloses}

PricesInit ==
    /\ config = DefaultConfig
    /\ prices = {}
    /\ modelFile = NoFile
    /\ scalerFile = NoFile
    /\ runs = 0
    /\ model_metrics = << >>
    /\ predictions = << >>
    /\ signals = << >>
    /\ sentiment_cache = << >>
    /\ IdleThreads
    /\ call = NoCall

SavePrices ==
    \E t \in PriceTickers, df \in PriceFrames :
        /\ prices' = save_price_rows(prices, t, df)
        /\ call' = [op |-> "save_prices", ticker |-> t, df |-> df,
                    before |-> prices]
        /\ UNCHANGED <<config, modelFile, scalerFile, runs, model_metrics,
                       predictions, signals, sentiment_cache, threadVars>>

GetPrices ==
    \E t \in PriceTickers, limit \in {1, HISTORY_DAYS} :
        /\ call' = [op |-> "get_prices", ticker |-> t, limit |-> limit,
                    ret |-> get_price_rows(prices, t, limit)]
        /\ UNCHANGED <<config, storeVars, threadVars>>

PricesNext == SavePrices \/ GetPrices

SpecPrices == PricesInit /\ [][PricesNext]_vars

\* C22: after any sequence of save_prices calls the price history holds at
\* most one bar per (instrument, date), get_prices returns bars in ascending
\* date order, and a stored bar is immutable: a later save_prices carrying a
\* bar for an already stored (instrument, date) leaves the stored values as
\* they were.
C22_OneImmutableBarPerDate ==
    /\ \A r \in prices : \A q \in prices :
           (r.ticker = q.ticker /\ r.date = q.date) => r = q
    /\ call.op = "get_prices" =>
           \A k \in 1..(Len(call.ret) - 1) : call.ret[k].date < call.ret[k + 1].date
    /\ call.op = "save_prices" => \A r \in call.before : r \in prices

----------------------------------------------------------------------------
(* SpecObv: _compute_obv applied to a close and a volume series *)

MaxObvBars == 4

ObvBars == {[Close |-> c, Volume |-> v] : c \in {1, 2}, v \in {3, 5}}

ObvSeries == UNION {[1..n -> ObvBars] : n \in 0..MaxObvBars}

ObvInit ==
    /\ config = DefaultConfig
    /\ IdleStore
    /\ IdleThreads
    /\ \E s \in ObvSeries : call = [op |-> "input_obv", bars |-> s]

ComputeObv ==
    /\ call.op = "input_obv"
    /\ call' = [op |-> "_compute_obv", bars |-> call.bars,
                ret |-> [k \in 1..Len(call.bars) |-> OBV(call.bars, k)]]
    /\ UNCHANGED <<config, storeVars, threadVars>>

ObvNext == ComputeObv

SpecObv == ObvInit /\ [][ObvNext]_vars

\* C25: on-balance volume is a running sum: 0 at the first bar, and at every
\* later bar the previous value plus the bar's volume on a strictly higher
\* close, minus it on a strictly lower close, unchanged on an equal close.
C25_ObvRunningSum ==
    call.op = "_compute_obv" =>
        \A k \in 1..Len(call.bars) :
            /\ k = 1 => call.ret[k] = 0
            /\ (k > 1 /\ call.bars[k].Close > call.bars[k - 1].Close) =>
                   call.ret[k] = call.ret[k - 1] + call.bars[k].Volume
            /\ (k > 1 /\ call.bars[k].Close < call.bars[k - 1].Close) =>
                   call.ret[k] = call.ret[k - 1] - call.bars[k].Volume
            /\ (k > 1 /\ call.bars[k].Close = call.bars[k - 1].Close) =>
                   call.ret[k] = call.ret[k - 1]

\* a rise, an equal close with volume, then a fall
C25_UpFlatDown ==
    /\ call.op = "_compute_obv"
    /\ call.bars = <<[Close |-> 1, Volume |-> 3], [Close |-> 2, Volume |-> 5],
                     [Close |-> 2, Volume |-> 5], [Close |-> 1, Volume |-> 3]>>
    /\ call.ret = <<0, 5, 5, 2>>

----------------------------------------------------------------------------
(* SpecAllSignals: generate_all_signals over a watchlist *)

\* get_watchlist: distinct tickers, ORDER BY ticker
Watchlists ==
    {<< >>, <<"AAPL">>, <<"MSFT">>, <<"AAPL", "MSFT">>, <<"AAPL", "TSLA">>,
     <<"AAPL", "MSFT", "TSLA">>}

AllTickers == {"AAPL", "MSFT", "TSLA"}

BullishInput ==
    [fault |-> "none", clf |-> [direction |-> "UP", confidence |-> 61250],
     ta |-> [raised |-> FALSE, score |-> 1000], heads |-> <<20, -10, 40>>,
     dbFails |-> FALSE]

BearishInput ==
    [fault |-> "none", clf |-> [direction |-> "DOWN", confidence |-> 100000],
     ta |-> [raised |-> FALSE, score |-> -1000], heads |-> <<-100, -100>>,
     dbFails |-> FALSE]

AllFailedInput ==
    [fault |-> "save_prediction",
     clf |-> [direction |-> "UP", confidence |-> 61250],
     ta |-> [raised |-> TRUE, score |-> 0], heads |-> <<20>>,
     dbFails |-> TRUE]

SignalCases ==
    {[provided |-> << >>, inp |-> BullishInput, escapes |-> "none"],
     [provided |-> SeriesOf(MaxBars, "zig"), inp |-> BullishInput,
      escapes |-> "get_history_df"],
     [provided |-> SeriesOf(MaxBars, "zig"), inp |-> BullishInput,
      escapes |-> "save_signal"]}
    \cup {[provided |-> SeriesOf(MaxBars, "zig"), inp |-> i, escapes |-> "none"] :
              i \in {BullishInput, BearishInput, AllFailedInput}}

AllSignalsInit ==
    /\ config = DefaultConfig
    /\ IdleStore
    /\ IdleThreads
    /\ \E wl \in Watchlists, cases \in [AllTickers -> SignalCases] :
          call = [op |-> "input_watchlist", watchlist |-> wl, cases |-> cases]

GenerateAllSignalsDone(r) ==
    /\ signals' = r.rows
    /\ call' = [op |-> "generate_all_signals", watchlist |-> call.watchlist,
                cases |-> call.cases, ret |-> r.ret]

GenerateAllSignals ==
    /\ call.op = "input_watchlist"
    /\ GenerateAllSignalsDone(
          generate_all_signals(call.watchlist, call.cases, Store, config, signals))
    /\ UNCHANGED <<config, prices, modelFile, scalerFile, runs, model_metrics,
                   predictions, sentiment_cache, threadVars>>

AllSignalsNext == GenerateAllSignals

SpecAllSignals == AllSignalsInit /\ [][AllSignalsNext]_vars

OnWatchlist(t) == \E k \in 1..Len(call.watchlist) : call.watchlist[k] = t

EntriesOf(t) == {k \in 1..Len(call.ret) : call.ret[k].ticker = t}

Raises(c) ==
    \/ c.escapes = "get_history_df"
    \/ c.escapes = "save_signal" /\ Len(c.provided) > 0

\* what generate_signal returns for the instrument processed on its own
AloneEntry(t) ==
    TrySignal(t, call.cases[t], Store, config, << >>).entries

\* C26: generate_all_signals processes every watchlist instrument
\* independently: an exception while generating one instrument's signal
\* yields an ERROR entry with edge_score 0 for it and never prevents the
\* signals of the others; the result holds at most one entry per watchlist
\* instrument, none for an instrument without price data, and is ordered by
\* non-increasing edge_score.
C26_AllSignalsIndependentAndOrdered ==
    call.op = "generate_all_signals" =>
        /\ \A t \in AllTickers :
              /\ ~OnWatchlist(t) => EntriesOf(t) = {}
              /\ Cardinality(EntriesOf(t)) <= 1
              /\ (OnWatchlist(t) /\ Raises(call.cases[t])) =>
                    \E k \in EntriesOf(t) :
                        call.ret[k].signal = "ERROR" /\ call.ret[k].edge_score = 0
              /\ (OnWatchlist(t) /\ ~Raises(call.cases[t])
                                 /\ Len(call.cases[t].provided) = 0) =>
                    EntriesOf(t) = {}
              /\ (OnWatchlist(t) /\ ~Raises(call.cases[t])
                                 /\ Len(call.cases[t].provided) > 0) =>
                    \E k \in EntriesOf(t) :
                        /\ call.ret[k].signal # "ERROR"
                        /\ <<call.ret[k]>> = AloneEntry(t)
        /\ \A k \in 1..(Len(call.ret) - 1) :
              call.ret[k].edge_score >= call.ret[k + 1].edge_score

\* the first instrument raises, the second has no data, and the third gets
\* its signal, which is ranked before the ERROR entry
C26_ErrorBesideSignal ==
    /\ call.op = "generate_all_signals"
    /\ call.watchlist = <<"AAPL", "MSFT", "TSLA">>
    /\ call.cases["AAPL"].escapes = "save_signal"
    /\ Len(call.cases["MSFT"].provided) = 0
    /\ Len(call.ret) = 2
    /\ call.ret[1].ticker = "TSLA" /\ call.ret[1].edge_score > 0
    /\ call.ret[2] = ErrorEntry("AAPL")

====
